---- MODULE Spec2Model ----
(***************************************************************************)
(* A model of the grapher property-graph store (internal/graph/graph.go)   *)
(* and of the depth-first iterator built on it (pkg/traverse/dfs.go).      *)
(*                                                                         *)
(* Go pointers are modelled explicitly: the node table and both adjacency  *)
(* indices hold pointers into a heap of Node and Edge objects, so that     *)
(* aliasing between the two indices, and between the store and the values  *)
(* its accessors hand out, is part of the model.                           *)
(***************************************************************************)
EXTENDS Integers, Sequences, FiniteSets, TLC

VARIABLES
    nodes,      \* Graph.nodes : id -> *Node
    out,        \* Graph.out   : from -> to -> *Edge
    in,         \* Graph.in    : to -> from -> *Edge
    nodeHeap,   \* the Node objects that are still referenced
    edgeHeap,   \* the Edge objects that are still referenced
    call,       \* the store call made last, with its arguments
    err,        \* the error that call returned
    held,       \* pointers a caller kept from an earlier read accessor
    shown,      \* what the held pointers showed when they were returned
    mu,         \* Graph.mu : the writer that holds it, the readers that hold it
    pc,         \* per thread: the call it is in, and where in it
    script,     \* per thread: the calls it still has to make
    obs,        \* per thread: what its read accessor has returned
    committed,  \* the store as the last completed mutator left it
    dfs,        \* the DFS iterator: stack, visited, direction, maxDepth, ...
    yielded,    \* the ids of the nodes Next has returned, in order
    iter,       \* the Iterate call made on the iterator: callback, result
    yieldedAt,  \* the stack depth at which each yielded node was popped
    exec,       \* the query executed last: the query, its rows and error
    lex,        \* the scanner of a query text, and the tokens it has returned
    parse,      \* the parse made last: the text, the query or the error
    file        \* the snapshot file: the document written last

storeVars == <<nodes, out, in, nodeHeap, edgeHeap>>
callVars  == <<call, err>>
aliasVars == <<held, shown>>
concVars  == <<mu, pc, script, obs, committed>>
dfsVars   == <<dfs, yielded, iter, yieldedAt>>
execVars  == <<exec>>
textVars  == <<lex, parse, file>>
vars == <<nodes, out, in, nodeHeap, edgeHeap, call, err, held, shown,
          mu, pc, script, obs, committed, dfs, yielded, iter,
          yieldedAt, exec, lex, parse, file>>

----------------------------------------------------------------------------
(* Inputs.                                                                 *)

NodeIds  == {"A", "B"}
IdInputs == NodeIds \cup {""}
PropKeys == {"k"}
PropVals == {"u", "v"}
MaxWeight == 2
Weights  == 1..MaxWeight

(* A Go map[string]T value: nil, or a finite function.                     *)
NilMap      == [isNil |-> TRUE,  kv |-> <<>>]
GoMap(f)    == [isNil |-> FALSE, kv |-> f]
PropMaps    == {GoMap(f) : f \in UNION {[K -> PropVals] : K \in SUBSET PropKeys}}
PropInputs  == PropMaps \cup {NilMap}

(* The package's error values.                                             *)
NoErr           == "nil"
ErrNodeExists   == "ErrNodeExists"
ErrNodeNotFound == "ErrNodeNotFound"
ErrEdgeExists   == "ErrEdgeExists"
ErrEdgeNotFound == "ErrEdgeNotFound"
ErrInvalidInput == "ErrInvalidInput"
(* A run-time panic of the Go runtime (no error value is returned).        *)
Panic           == "panic"

----------------------------------------------------------------------------
(* Go maps as functions.                                                   *)

EmptyMap == <<>>
MapDel(m, k) == [x \in DOMAIN m \ {k} |-> m[x]]
MapPut(m, k, v) == [x \in DOMAIN m \cup {k} |-> IF x = k THEN v ELSE m[x]]
Restrict(m, K) == [x \in DOMAIN m \cap K |-> m[x]]
Range(m) == {m[x] : x \in DOMAIN m}

(* _, exists := m[a][b]  (indexing a missing inner map yields no entry).   *)
Has2(m, a, b) == a \in DOMAIN m /\ b \in DOMAIN m[a]

(* m[a][b] = v, creating the inner map when it is missing.                 *)
Put2(m, a, b, v) ==
    MapPut(m, a, MapPut(IF a \in DOMAIN m THEN m[a] ELSE EmptyMap, b, v))

(* delete(m[a], b); if len(m[a]) == 0 { delete(m, a) }                     *)
Del2(m, a, b) ==
    IF a \in DOMAIN m
    THEN LET inner == MapDel(m[a], b)
         IN  IF DOMAIN inner = {} THEN MapDel(m, a) ELSE MapPut(m, a, inner)
    ELSE m

(* All enumerations of a finite set: the orders a range over a Go map or   *)
(* the slice built from it can have.                                       *)
Perms(S) ==
    {s \in [1..Cardinality(S) -> S] : \A i, j \in 1..Cardinality(S) : i # j => s[i] # s[j]}

(* The keys of a map in the iteration order ord (a permutation of all ids).*)
IterOrder(keys, ord) == SelectSeq(ord, LAMBDA x : x \in keys)

SeqRange(s) == {s[i] : i \in 1..Len(s)}

----------------------------------------------------------------------------
(* Heap objects and pointers.                                              *)

NodePtr(id, gen) == <<"node", id, gen>>
EdgePtr(from, to, gen) == <<"edge", from, to, gen>>

(* The store as one value: the Graph struct's maps and the objects they    *)
(* point to.                                                               *)
Store == [nodes |-> nodes, out |-> out, in |-> in,
          nodeHeap |-> nodeHeap, edgeHeap |-> edgeHeap]

(* &Node[T]{...}: a pointer that no live object has.                       *)
NewNodePtr(S, id) ==
    NodePtr(id, CHOOSE g \in 0..Cardinality(DOMAIN S.nodeHeap) :
                   /\ NodePtr(id, g) \notin DOMAIN S.nodeHeap
                   /\ \A h \in 0..(g - 1) : NodePtr(id, h) \in DOMAIN S.nodeHeap)

(* &Edge{...}: a pointer that no live object has.                          *)
NewEdgePtr(S, from, to) ==
    EdgePtr(from, to, CHOOSE g \in 0..Cardinality(DOMAIN S.edgeHeap) :
                   /\ EdgePtr(from, to, g) \notin DOMAIN S.edgeHeap
                   /\ \A h \in 0..(g - 1) : EdgePtr(from, to, h) \in DOMAIN S.edgeHeap)

(* The pointers an adjacency index holds.                                  *)
IndexPtrs(m) == UNION {Range(m[a]) : a \in DOMAIN m}

(* Garbage collection: objects referenced neither by the store nor by the  *)
(* given roots are dropped.                                                *)
Collect(S, nodeRoots, edgeRoots) ==
    [S EXCEPT !.nodeHeap = Restrict(@, Range(S.nodes) \cup nodeRoots),
              !.edgeHeap = Restrict(@, IndexPtrs(S.out) \cup IndexPtrs(S.in) \cup edgeRoots)]

(* What a call returns: the store after it, the error, and the pointers.   *)
NoRet == [nodes |-> <<>>, edges |-> <<>>]
Result(S, e, r) == [S |-> S, err |-> e, ret |-> r]
Ok(S)       == Result(S, NoErr, NoRet)
Fail(S, e)  == Result(S, e, NoRet)

----------------------------------------------------------------------------
(* Node operations.                                                        *)

(* AddNode without the check for a present id.                             *)
AddNode_Overwrite(S, id, props) ==
    IF id = "" THEN Fail(S, ErrInvalidInput)
    ELSE LET p == NewNodePtr(S, id)
         IN  Ok([S EXCEPT !.nodes = MapPut(@, id, p),
                          !.nodeHeap = MapPut(@, p,
                              [ID |-> id, Labels |-> <<>>, Properties |-> props])])

AddNode(S, id, props) ==
    IF id = "" THEN Fail(S, ErrInvalidInput)
    ELSE IF id \in DOMAIN S.nodes THEN Fail(S, ErrNodeExists)
    ELSE LET p == NewNodePtr(S, id)
         IN  Ok([S EXCEPT !.nodes = MapPut(@, id, p),
                          !.nodeHeap = MapPut(@, p,
                              [ID |-> id, Labels |-> <<>>, Properties |-> props])])

(* for k, v := range props { node.Properties[k] = v }                      *)
UpdateNodeProps(S, id, props) ==
    IF id \notin DOMAIN S.nodes THEN Fail(S, ErrNodeNotFound)
    ELSE LET p == S.nodes[id]
             old == S.nodeHeap[p].Properties
         IN  IF DOMAIN props.kv = {} THEN Ok(S)
             ELSE IF old.isNil THEN Fail(S, Panic)
             ELSE Ok([S EXCEPT !.nodeHeap[p].Properties =
                        GoMap([k \in DOMAIN old.kv \cup DOMAIN props.kv |->
                                 IF k \in DOMAIN props.kv THEN props.kv[k] ELSE old.kv[k]])])

(* One iteration of RemoveNode's first loop.                               *)
RemoveOutStep(S, id, to) == [S EXCEPT !.in = Del2(@, to, id)]

(* The second loop of RemoveNode without its body.                         *)
RemoveInStep_Skip(S, id, from) == S

(* One iteration of RemoveNode's second loop.                              *)
RemoveInStep(S, id, from) == [S EXCEPT !.out = Del2(@, from, id)]

RECURSIVE RemoveOutLoop(_, _, _)
RemoveOutLoop(S, id, todo) ==
    IF todo = <<>> THEN S
    ELSE RemoveOutLoop(RemoveOutStep(S, id, Head(todo)), id, Tail(todo))

RECURSIVE RemoveInLoop(_, _, _)
RemoveInLoop(S, id, todo) ==
    IF todo = <<>> THEN S
    ELSE RemoveInLoop(RemoveInStep(S, id, Head(todo)), id, Tail(todo))

KeysOf(m, a) == IF a \in DOMAIN m THEN DOMAIN m[a] ELSE {}

(* delete(g.out, id), between the two loops.                               *)
RemoveOutDone(S, id) == [S EXCEPT !.out = MapDel(@, id)]

(* RemoveNode that leaves the node in the node table.                      *)
RemoveFinish_KeepNode(S, id) == [S EXCEPT !.in = MapDel(@, id)]

(* delete(g.in, id); delete(g.nodes, id), after the second loop.           *)
RemoveFinish(S, id) == [S EXCEPT !.in = MapDel(@, id), !.nodes = MapDel(@, id)]

(* ord1, ord2: the iteration orders of the two range loops.                *)
RemoveNode(S, id, ord1, ord2) ==
    IF id \notin DOMAIN S.nodes THEN Fail(S, ErrNodeNotFound)
    ELSE LET S1 == RemoveOutLoop(S, id, IterOrder(KeysOf(S.out, id), ord1))
             S2 == RemoveOutDone(S1, id)
             S3 == RemoveInLoop(S2, id, IterOrder(KeysOf(S2.in, id), ord2))
         IN  Ok(RemoveFinish(S3, id))

----------------------------------------------------------------------------
(* Edge operations.                                                        *)

(* The incoming index gets a copy of the edge instead of the edge.         *)
addEdgeToIndex_Copy(S, from, to, edge) ==
    LET copy == NewEdgePtr(S, from, to)
    IN  [S EXCEPT !.out = Put2(@, from, to, edge),
                  !.in  = Put2(@, to, from, copy),
                  !.edgeHeap = MapPut(@, copy, S.edgeHeap[edge])]

addEdgeToIndex(S, from, to, edge) ==
    [S EXCEPT !.out = Put2(@, from, to, edge),
              !.in  = Put2(@, to, from, edge)]

(* AddEdge that creates the inner map of the outgoing index before it has  *)
(* checked the target node.                                                *)
AddEdge_Partial(S, from, to, weight) ==
    IF from = "" \/ to = "" THEN Fail(S, ErrInvalidInput)
    ELSE IF from \notin DOMAIN S.nodes THEN Fail(S, ErrNodeNotFound)
    ELSE IF to \notin DOMAIN S.nodes
         THEN Fail([S EXCEPT !.out = IF from \in DOMAIN @ THEN @ ELSE MapPut(@, from, EmptyMap)],
                   ErrNodeNotFound)
    ELSE IF Has2(S.out, from, to) THEN Fail(S, ErrEdgeExists)
    ELSE LET p == NewEdgePtr(S, from, to)
             S1 == [S EXCEPT !.edgeHeap = MapPut(@, p,
                        [From |-> from, To |-> to, Weight |-> weight])]
         IN  Ok([S1 EXCEPT !.out = Put2(@, from, to, p),
                           !.in  = Put2(@, to, from, p)])

(* AddEdge without the check for a present edge.                           *)
AddEdge_Overwrite(S, from, to, weight) ==
    IF from = "" \/ to = "" THEN Fail(S, ErrInvalidInput)
    ELSE IF from \notin DOMAIN S.nodes THEN Fail(S, ErrNodeNotFound)
    ELSE IF to \notin DOMAIN S.nodes THEN Fail(S, ErrNodeNotFound)
    ELSE LET p == NewEdgePtr(S, from, to)
             S1 == [S EXCEPT !.edgeHeap = MapPut(@, p,
                        [From |-> from, To |-> to, Weight |-> weight])]
         IN  Ok([S1 EXCEPT !.out = Put2(@, from, to, p),
                           !.in  = Put2(@, to, from, p)])

AddEdge(S, from, to, weight) ==
    IF from = "" \/ to = "" THEN Fail(S, ErrInvalidInput)
    ELSE IF from \notin DOMAIN S.nodes THEN Fail(S, ErrNodeNotFound)
    ELSE IF to \notin DOMAIN S.nodes THEN Fail(S, ErrNodeNotFound)
    ELSE IF Has2(S.out, from, to) THEN Fail(S, ErrEdgeExists)
    ELSE LET p == NewEdgePtr(S, from, to)
             S1 == [S EXCEPT !.edgeHeap = MapPut(@, p,
                        [From |-> from, To |-> to, Weight |-> weight])]
         IN  Ok(addEdgeToIndex(S1, from, to, p))

UpdateEdge(S, from, to, weight) ==
    IF ~Has2(S.out, from, to) THEN Fail(S, ErrEdgeNotFound)
    ELSE Ok([S EXCEPT !.edgeHeap[S.out[from][to]].Weight = weight])

GetEdge(S, from, to) ==
    IF Has2(S.out, from, to)
    THEN Result(S, NoErr, [nodes |-> <<>>, edges |-> <<S.out[from][to]>>])
    ELSE Fail(S, ErrEdgeNotFound)

(* A RemoveEdge that leaves the entry of the incoming index.               *)
RemoveEdge_OutOnly(S, from, to) ==
    IF ~Has2(S.out, from, to) THEN Fail(S, ErrEdgeNotFound)
    ELSE Ok([S EXCEPT !.out = Del2(@, from, to)])

RemoveEdge(S, from, to) ==
    IF ~Has2(S.out, from, to) THEN Fail(S, ErrEdgeNotFound)
    ELSE Ok([S EXCEPT !.out = Del2(@, from, to),
                      !.in  = Del2(@, to, from)])

----------------------------------------------------------------------------
(* Read accessors.  They return the store's own pointers.                  *)

GetNode(S, id) ==
    IF id \notin DOMAIN S.nodes THEN Fail(S, ErrNodeNotFound)
    ELSE Result(S, NoErr, [nodes |-> <<S.nodes[id]>>, edges |-> <<>>])

(* ord: the iteration order of the range over g.nodes.                     *)
AllNodes(S, ord) ==
    LET ids == IterOrder(DOMAIN S.nodes, ord)
    IN  Result(S, NoErr, [nodes |-> [i \in 1..Len(ids) |-> S.nodes[ids[i]]],
                          edges |-> <<>>])

GetOutEdges(S, from, ord) ==
    IF from \notin DOMAIN S.nodes THEN Fail(S, ErrNodeNotFound)
    ELSE LET tos == IterOrder(KeysOf(S.out, from), ord)
         IN  Result(S, NoErr, [nodes |-> <<>>,
                               edges |-> [i \in 1..Len(tos) |-> S.out[from][tos[i]]]])

GetInEdges(S, to, ord) ==
    IF to \notin DOMAIN S.nodes THEN Fail(S, ErrNodeNotFound)
    ELSE LET froms == IterOrder(KeysOf(S.in, to), ord)
         IN  Result(S, NoErr, [nodes |-> <<>>,
                               edges |-> [i \in 1..Len(froms) |-> S.in[to][froms[i]]]])

----------------------------------------------------------------------------
(* Calls made one after the other by a single caller.                      *)

NoProps == NilMap

(* What the caller could see of the store right before its call: whether   *)
(* the named nodes and the edge a->b exist, the properties of node a, the  *)
(* weight of a->b, and (for RemoveNode) the edges incident to a.           *)
Pre(op, a, b) ==
    [hadA    |-> a \in DOMAIN nodes,
     hadB    |-> b \in DOMAIN nodes,
     props   |-> IF op \in {"AddNode", "UpdateNodeProps"} /\ a \in DOMAIN nodes
                 THEN nodeHeap[nodes[a]].Properties ELSE NilMap,
     hadEdge |-> Has2(out, a, b),
     weight  |-> IF Has2(out, a, b) THEN edgeHeap[out[a][b]].Weight ELSE 0,
     incident |-> IF op = "RemoveNode"
                  THEN {e \in NodeIds \X NodeIds :
                          /\ e[1] = a \/ e[2] = a
                          /\ Has2(out, e[1], e[2]) \/ Has2(in, e[2], e[1])}
                  ELSE {}]

Call(op, a, b, w, props) ==
    [op |-> op, a |-> a, b |-> b, w |-> w, props |-> props, pre |-> Pre(op, a, b)]

(* The store after a call whose result is r: r.S, with the objects that    *)
(* nothing references any more collected.                                  *)
Commit(r, nodeRoots, edgeRoots) ==
    LET S == Collect(r.S, nodeRoots, edgeRoots)
    IN  /\ nodes' = S.nodes
        /\ out' = S.out
        /\ in' = S.in
        /\ nodeHeap' = S.nodeHeap
        /\ edgeHeap' = S.edgeHeap

(* A call to a mutator by a caller that holds no pointer into the store.   *)
Returns(c, r) ==
    /\ call' = c
    /\ err' = r.err
    /\ Commit(r, {}, {})
    /\ UNCHANGED <<aliasVars, concVars, dfsVars, execVars, textVars>>

CallAddNode ==
    \E id \in IdInputs, props \in PropInputs :
        Returns(Call("AddNode", id, "", 0, props), AddNode(Store, id, props))

CallUpdateNodeProps ==
    \E id \in NodeIds, props \in PropInputs :
        Returns(Call("UpdateNodeProps", id, "", 0, props), UpdateNodeProps(Store, id, props))

CallRemoveNode ==
    \E id \in NodeIds, ord1 \in Perms(NodeIds), ord2 \in Perms(NodeIds) :
        Returns(Call("RemoveNode", id, "", 0, NoProps), RemoveNode(Store, id, ord1, ord2))

CallAddEdge ==
    \E from \in IdInputs, to \in IdInputs, w \in Weights :
        Returns(Call("AddEdge", from, to, w, NoProps), AddEdge(Store, from, to, w))

CallUpdateEdge ==
    \E from \in NodeIds, to \in NodeIds, w \in Weights :
        Returns(Call("UpdateEdge", from, to, w, NoProps), UpdateEdge(Store, from, to, w))

CallRemoveEdge ==
    \E from \in NodeIds, to \in NodeIds :
        Returns(Call("RemoveEdge", from, to, 0, NoProps), RemoveEdge(Store, from, to))

(* graph.New                                                               *)
New ==
    /\ nodes = EmptyMap
    /\ out = EmptyMap
    /\ in = EmptyMap
    /\ nodeHeap = EmptyMap
    /\ edgeHeap = EmptyMap

(* No thread has called into the store.                                    *)
NoThreads ==
    /\ mu = [writer |-> 0, readers |-> {}]
    /\ pc = <<>>
    /\ script = <<>>
    /\ obs = <<>>
    /\ committed = Store

(* A single caller that has made no call yet.                              *)
NoCalls ==
    /\ call = Call("New", "", "", 0, NoProps)
    /\ err = NoErr
    /\ held = NoRet
    /\ shown = [nodes |-> EmptyMap, edges |-> EmptyMap]

(* No iterator has been created.                                           *)
NoFilter == [set |-> FALSE, Start |-> {}, End |-> {}]
NoDFS == [made |-> FALSE, stack |-> <<>>, visited |-> {}, direction |-> "",
          maxDepth |-> 0, rangeFilter |-> NoFilter, inRange |-> FALSE]
(* No query has been executed.                                             *)
NoQuery == [done |-> FALSE, query |-> <<>>, err |-> NoErr, rows |-> <<>>, starts |-> <<>>]

(* Iterate has not been called.  failOn: the ids of the nodes on which the *)
(* visitor callback returns an error; seen: the nodes it was called on.    *)
NoIterate == [done |-> FALSE, err |-> NoErr, seen |-> <<>>, failOn |-> {}]

NoTraversal ==
    /\ dfs = NoDFS
    /\ yielded = <<>>
    /\ iter = NoIterate
    /\ yieldedAt = <<>>
    /\ exec = NoQuery

(* No query text scanned or parsed, no snapshot written.                  *)
NoLex   == [made |-> FALSE]
NoParse == [done |-> FALSE]
NoFile  == [written |-> FALSE]

NoText ==
    /\ lex = NoLex
    /\ parse = NoParse
    /\ file = NoFile

Init ==
    /\ New
    /\ NoCalls
    /\ NoThreads
    /\ NoTraversal
    /\ NoText

Next ==
    \/ CallAddNode
    \/ CallUpdateNodeProps
    \/ CallRemoveNode
    \/ CallAddEdge
    \/ CallUpdateEdge
    \/ CallRemoveEdge

Spec == Init /\ [][Next]_vars

----------------------------------------------------------------------------
(* A caller that keeps what a read accessor returned while the store is    *)
(* mutated (by itself or by another thread, one call after the other).     *)

(* The objects the pointers of r show at the time they are returned.       *)
Deref(S, r) ==
    [nodes |-> [p \in SeqRange(r.nodes) |-> S.nodeHeap[p]],
     edges |-> [p \in SeqRange(r.edges) |-> S.edgeHeap[p]]]

(* The i-th pointer of a result, as a result of its own.                   *)
Pick(r, i) ==
    [nodes |-> IF i \in DOMAIN r.nodes THEN <<r.nodes[i]>> ELSE <<>>,
     edges |-> IF i \in DOMAIN r.edges THEN <<r.edges[i]>> ELSE <<>>]

(* The caller, which holds no pointer yet, keeps one of the pointers a     *)
(* read accessor returned (nothing when the accessor failed or returned an *)
(* empty slice).                                                           *)
Keeps(r) ==
    \E i \in 1..Cardinality(NodeIds) :
        /\ held = NoRet
        /\ i = 1 \/ i \in DOMAIN r.ret.nodes \/ i \in DOMAIN r.ret.edges
        /\ held' = Pick(r.ret, i)
        /\ shown' = Deref(r.S, Pick(r.ret, i))
        /\ Commit(r, SeqRange(Pick(r.ret, i).nodes), SeqRange(Pick(r.ret, i).edges))
        /\ UNCHANGED <<callVars, concVars, dfsVars, execVars, textVars>>

(* A mutator runs while the caller still holds its pointer.                *)
Later(r) ==
    /\ Commit(r, SeqRange(held.nodes), SeqRange(held.edges))
    /\ UNCHANGED <<callVars, aliasVars, concVars, dfsVars, execVars, textVars>>

(* The property maps this caller stores.                                   *)
AliasProps == {m \in PropMaps : DOMAIN m.kv = PropKeys}

KeepGetNode == \E id \in NodeIds : Keeps(GetNode(Store, id))
KeepAllNodes == \E ord \in Perms(NodeIds) : Keeps(AllNodes(Store, ord))
KeepGetOutEdges == \E id \in NodeIds, ord \in Perms(NodeIds) : Keeps(GetOutEdges(Store, id, ord))
KeepGetInEdges == \E id \in NodeIds, ord \in Perms(NodeIds) : Keeps(GetInEdges(Store, id, ord))

LaterAddNode ==
    \E id \in NodeIds, props \in AliasProps : Later(AddNode(Store, id, props))
LaterUpdateNodeProps ==
    \E id \in NodeIds, props \in AliasProps : Later(UpdateNodeProps(Store, id, props))
LaterRemoveNode ==
    \E id \in NodeIds, ord1 \in Perms(NodeIds), ord2 \in Perms(NodeIds) :
        Later(RemoveNode(Store, id, ord1, ord2))
LaterAddEdge ==
    \E from \in NodeIds, to \in NodeIds, w \in Weights : Later(AddEdge(Store, from, to, w))
LaterUpdateEdge ==
    \E from \in NodeIds, to \in NodeIds, w \in Weights : Later(UpdateEdge(Store, from, to, w))
LaterRemoveEdge ==
    \E from \in NodeIds, to \in NodeIds : Later(RemoveEdge(Store, from, to))

NextAlias ==
    \/ KeepGetNode
    \/ KeepAllNodes
    \/ KeepGetOutEdges
    \/ KeepGetInEdges
    \/ LaterAddNode
    \/ LaterUpdateNodeProps
    \/ LaterRemoveNode
    \/ LaterAddEdge
    \/ LaterUpdateEdge
    \/ LaterRemoveEdge

SpecAlias == Init /\ [][NextAlias]_vars

----------------------------------------------------------------------------
(* Threads calling into the store concurrently.  Every method takes g.mu   *)
(* on entry and releases it on return (defer g.mu.Unlock()).  Between the  *)
(* two, the body of RemoveNode is a sequence of steps, one per loop        *)
(* iteration; the other bodies are one step each.                          *)

NumThreads == 2
Threads == 1..NumThreads
NumWorkers == 3
Workers == 1..NumWorkers
IdPool == <<"A", "B", "C", "D", "E">>

Readers == {"GetNode", "AllNodes", "GetOutEdges", "GetInEdges"}
ConcOps == {"AddNode", "AddEdge", "RemoveNode"} \cup Readers
ConcProps == GoMap([k \in PropKeys |-> "u"])

Idle == [at |-> "idle", op |-> "", a |-> "", b |-> "", todo |-> {}, err |-> NoErr]
NoObs == [err |-> NoErr, nodes |-> {}, edges |-> {}]

(* A Lock that does not wait.                                              *)
LockFree_NoWait(m) == TRUE

(* g.mu.Lock() returns when nobody holds the lock.                         *)
LockFree(m) == m.writer = 0 /\ m.readers = {}

(* An RLock that does not wait for the writer.                             *)
RLockFree_NoWait(m) == TRUE

(* g.mu.RLock() returns when no writer holds the lock.                     *)
RLockFree(m) == m.writer = 0

(* A read accessor, by name.                                               *)
Read(S, op, a, ord) ==
    CASE op = "GetNode"     -> GetNode(S, a)
      [] op = "AllNodes"    -> AllNodes(S, ord)
      [] op = "GetOutEdges" -> GetOutEdges(S, a, ord)
      [] op = "GetInEdges"  -> GetInEdges(S, a, ord)

(* What a caller reads from the result of a read accessor.                 *)
ObsOf(r) ==
    [err   |-> r.err,
     nodes |-> {r.S.nodeHeap[p] : p \in SeqRange(r.ret.nodes)},
     edges |-> {r.S.edgeHeap[p] : p \in SeqRange(r.ret.edges)}]

(* The node pointers a traversing thread holds: those on the iterator's    *)
(* stack, the entry Next has popped and the neighbours it has fetched.     *)
(* The objects they point to stay alive when the store drops them.         *)
Walker == 1
WalkerNodes ==
    {dfs.stack[i].node : i \in 1..Len(dfs.stack)}
        \cup (IF Walker \in DOMAIN pc /\ pc[Walker].at = "neighbors"
              THEN {pc[Walker].item.node} \cup SeqRange(pc[Walker].got)
              ELSE {})

(* Thread t calls a method: it is now at the method's first statement,     *)
(* g.mu.Lock() or g.mu.RLock().                                            *)
Enter(t, op, a, b) ==
    /\ pc[t].at = "idle"
    /\ pc' = [pc EXCEPT ![t] = [Idle EXCEPT !.at = "lock", !.op = op, !.a = a, !.b = b]]
    /\ UNCHANGED <<storeVars, callVars, aliasVars, dfsVars, execVars, textVars, mu, obs, committed>>

(* A thread calls any method with any arguments.                           *)
EnterAny(t) ==
    /\ \E op \in ConcOps, a \in NodeIds, b \in NodeIds :
          Enter(t, op, IF op = "AllNodes" THEN "" ELSE a, IF op = "AddEdge" THEN b ELSE "")
    /\ UNCHANGED script

(* A worker makes the next call of its script.                             *)
EnterScripted(t) ==
    /\ script[t] # <<>>
    /\ Enter(t, Head(script[t]).op, Head(script[t]).a, "")
    /\ script' = [script EXCEPT ![t] = Tail(@)]

(* g.mu.Lock() / g.mu.RLock() returns.                                     *)
Acquire(t) ==
    /\ pc[t].at = "lock"
    /\ IF pc[t].op \in Readers
       THEN RLockFree(mu) /\ mu' = [mu EXCEPT !.readers = @ \cup {t}]
       ELSE LockFree(mu) /\ mu' = [mu EXCEPT !.writer = t]
    /\ pc' = [pc EXCEPT ![t].at = "body"]
    /\ UNCHANGED <<storeVars, callVars, aliasVars, dfsVars, execVars, textVars, script, obs, committed>>

(* The body of the method, up to its return statement; for RemoveNode, up  *)
(* to the first loop.                                                      *)
Body(t) ==
    /\ pc[t].at = "body"
    /\ LET c == pc[t]
       IN  IF c.op = "RemoveNode"
           THEN /\ IF c.a \notin DOMAIN nodes
                   THEN pc' = [pc EXCEPT ![t].at = "unlock", ![t].err = ErrNodeNotFound]
                   ELSE pc' = [pc EXCEPT ![t].at = "rm_out", ![t].todo = KeysOf(out, c.a)]
                /\ UNCHANGED <<storeVars, obs>>
           ELSE IF c.op \in Readers
           THEN \E ord \in Perms(NodeIds) :
                   LET r == Read(Store, c.op, c.a, ord)
                   IN  /\ obs' = [obs EXCEPT ![t] = ObsOf(r)]
                       /\ pc' = [pc EXCEPT ![t].at = "unlock", ![t].err = r.err]
                       /\ UNCHANGED storeVars
           ELSE LET r == IF c.op = "AddNode" THEN AddNode(Store, c.a, ConcProps)
                         ELSE IF c.op = "RemoveEdge" THEN RemoveEdge(Store, c.a, c.b)
                         ELSE AddEdge(Store, c.a, c.b, 1)
                IN  /\ Commit(r, WalkerNodes, {})
                    /\ pc' = [pc EXCEPT ![t].at = "unlock", ![t].err = r.err]
                    /\ UNCHANGED obs
    /\ UNCHANGED <<callVars, aliasVars, dfsVars, execVars, textVars, mu, script, committed>>

(* RemoveNode's first loop: one iteration, or the end of the loop and      *)
(* delete(g.out, id).                                                      *)
RemoveOutLoopStep(t) ==
    /\ pc[t].at = "rm_out"
    /\ IF pc[t].todo = {}
       THEN LET S == RemoveOutDone(Store, pc[t].a)
            IN  /\ Commit(Ok(S), WalkerNodes, {})
                /\ pc' = [pc EXCEPT ![t].at = "rm_in", ![t].todo = KeysOf(S.in, pc[t].a)]
       ELSE \E to \in pc[t].todo :
                /\ Commit(Ok(RemoveOutStep(Store, pc[t].a, to)), WalkerNodes, {})
                /\ pc' = [pc EXCEPT ![t].todo = @ \ {to}]
    /\ UNCHANGED <<callVars, aliasVars, dfsVars, execVars, textVars, mu, script, obs, committed>>

(* RemoveNode's second loop: one iteration, or the end of the loop and     *)
(* the two deletes that follow it.                                         *)
RemoveInLoopStep(t) ==
    /\ pc[t].at = "rm_in"
    /\ IF pc[t].todo = {}
       THEN /\ Commit(Ok(RemoveFinish(Store, pc[t].a)), WalkerNodes, {})
            /\ pc' = [pc EXCEPT ![t].at = "unlock"]
       ELSE \E from \in pc[t].todo :
                /\ Commit(Ok(RemoveInStep(Store, pc[t].a, from)), WalkerNodes, {})
                /\ pc' = [pc EXCEPT ![t].todo = @ \ {from}]
    /\ UNCHANGED <<callVars, aliasVars, dfsVars, execVars, textVars, mu, script, obs, committed>>

(* The method returns: the deferred Unlock / RUnlock runs.                 *)
Leave(t) ==
    /\ pc[t].at = "unlock"
    /\ mu' = IF pc[t].op \in Readers
             THEN [mu EXCEPT !.readers = @ \ {t}]
             ELSE [mu EXCEPT !.writer = 0]
    /\ committed' = IF pc[t].op \in Readers THEN committed ELSE Store
    /\ pc' = [pc EXCEPT ![t] = Idle]
    /\ obs' = [obs EXCEPT ![t] = NoObs]
    /\ UNCHANGED <<storeVars, callVars, aliasVars, dfsVars, execVars, textVars, script>>

InitConc ==
    /\ New
    /\ NoCalls
    /\ mu = [writer |-> 0, readers |-> {}]
    /\ pc = [t \in Threads |-> Idle]
    /\ script = [t \in Threads |-> <<>>]
    /\ obs = [t \in Threads |-> NoObs]
    /\ committed = Store
    /\ NoTraversal
    /\ NoText

ThreadCalls == \E t \in DOMAIN pc : EnterAny(t)
WorkerCalls == \E t \in DOMAIN pc : EnterScripted(t)
ThreadAcquires == \E t \in DOMAIN pc : Acquire(t)
ThreadRunsBody == \E t \in DOMAIN pc : Body(t)
ThreadRemovesOut == \E t \in DOMAIN pc : RemoveOutLoopStep(t)
ThreadRemovesIn == \E t \in DOMAIN pc : RemoveInLoopStep(t)
ThreadLeaves == \E t \in DOMAIN pc : Leave(t)

NextConc ==
    \/ ThreadCalls
    \/ ThreadAcquires
    \/ ThreadRunsBody
    \/ ThreadRemovesOut
    \/ ThreadRemovesIn
    \/ ThreadLeaves

SpecConc == InitConc /\ [][NextConc]_vars

(* testMixedConcurrency: worker i calls AddNode, GetNode and RemoveNode on *)
(* an id of its own.                                                       *)
WorkerScript(i) ==
    <<[op |-> "AddNode", a |-> IdPool[i]],
      [op |-> "GetNode", a |-> IdPool[i]],
      [op |-> "RemoveNode", a |-> IdPool[i]]>>

InitMixed ==
    /\ New
    /\ NoCalls
    /\ mu = [writer |-> 0, readers |-> {}]
    /\ pc = [t \in Workers |-> Idle]
    /\ script = [t \in Workers |-> WorkerScript(t)]
    /\ obs = [t \in Workers |-> NoObs]
    /\ committed = Store
    /\ NoTraversal
    /\ NoText

NextMixed ==
    \/ WorkerCalls
    \/ ThreadAcquires
    \/ ThreadRunsBody
    \/ ThreadRemovesOut
    \/ ThreadRemovesIn
    \/ ThreadLeaves

SpecMixed == InitMixed /\ [][NextMixed]_vars

----------------------------------------------------------------------------
(* The depth-first iterator.  A range filter's two predicates are the sets *)
(* of node ids they hold for.                                              *)

Outgoing == "Outgoing"
Incoming == "Incoming"
NilNode  == "nil"

DfsIds == {"A", "B", "C", "D"}
MaxEdges == 3
MaxEdgesDepth == 4
MaxDepthBound == 2

(* A NewDFS that does not fail on a missing start id: it returns an        *)
(* iterator with an empty stack.                                           *)
NewDFS_NoLookup(S, startID, direction, maxDepth, filter) ==
    [err |-> NoErr,
     dfs |-> [made |-> TRUE,
              stack |-> IF startID \in DOMAIN S.nodes
                        THEN <<[node |-> S.nodes[startID], depth |-> 0]>> ELSE <<>>,
              visited |-> {},
              direction |-> direction,
              maxDepth |-> maxDepth,
              rangeFilter |-> filter,
              inRange |-> FALSE]]

NewDFS(S, startID, direction, maxDepth, filter) ==
    LET r == GetNode(S, startID)
    IN  IF r.err # NoErr THEN [err |-> r.err, dfs |-> NoDFS]
        ELSE [err |-> NoErr,
              dfs |-> [made |-> TRUE,
                       stack |-> <<[node |-> r.ret.nodes[1], depth |-> 0]>>,
                       visited |-> {},
                       direction |-> direction,
                       maxDepth |-> maxDepth,
                       rangeFilter |-> filter,
                       inRange |-> FALSE]]

HasNext(d) == Len(d.stack) > 0

(* ord: the order in which the range over the adjacency map delivers the   *)
(* node's edges.                                                           *)
getNeighbors(S, d, n, ord) ==
    LET id == S.nodeHeap[n].ID
        r  == IF d.direction = Incoming THEN GetInEdges(S, id, ord)
                                        ELSE GetOutEdges(S, id, ord)
    IN  IF r.err # NoErr \/ Len(r.ret.edges) = 0 THEN <<>>
        ELSE LET ids == [i \in 1..Len(r.ret.edges) |->
                            IF d.direction = Incoming
                            THEN S.edgeHeap[r.ret.edges[i]].From
                            ELSE S.edgeHeap[r.ret.edges[i]].To]
                 found == SelectSeq(ids, LAMBDA x : GetNode(S, x).err = NoErr)
             IN  [i \in 1..Len(found) |-> GetNode(S, found[i]).ret.nodes[1]]

(* The orders a range over the node's adjacency map can have.              *)
NeighborOrders(S, d, n) ==
    Perms(KeysOf(IF d.direction = Incoming THEN S.in ELSE S.out, S.nodeHeap[n].ID))

Reverse(s) == [i \in 1..Len(s) |-> s[Len(s) + 1 - i]]

(* A pop that takes every entry for new.                                   *)
AlreadyVisited_Never(d, id) == FALSE

(* _, exists := d.visited[currentItem.node.ID]                             *)
AlreadyVisited(d, id) == id \in d.visited

(* The neighbours pushed for a popped entry: those not visited yet, the    *)
(* first one on top.                                                       *)
Pushed(S, d, item, ord) ==
    LET ns == getNeighbors(S, d, item.node, ord)
        unvisited == SelectSeq(Reverse(ns), LAMBDA n : S.nodeHeap[n].ID \notin d.visited)
    IN  [i \in 1..Len(unvisited) |-> [node |-> unvisited[i], depth |-> item.depth + 1]]

(* A pop that takes the oldest entry.                                      *)
Pop_Oldest(stack) == [item |-> stack[1], rest |-> SubSeq(stack, 2, Len(stack))]

(* currentItem := d.stack[len(d.stack)-1]; d.stack = d.stack[:len-1]       *)
Pop(stack) == [item |-> stack[Len(stack)], rest |-> SubSeq(stack, 1, Len(stack) - 1)]

(* Next: every iterator state and return value the call can end with,     *)
(* over the orders in which the adjacency maps are iterated.               *)
RECURSIVE NextResults(_, _)
NextResults(S, d) ==
    IF Len(d.stack) = 0 THEN {[dfs |-> d, ret |-> NilNode, depth |-> -1]}
    ELSE LET item == Pop(d.stack).item
             id == S.nodeHeap[item.node].ID
             d1 == [d EXCEPT !.stack = Pop(@).rest]
         IN  IF AlreadyVisited(d1, id) THEN NextResults(S, d1)
             ELSE LET f == d1.rangeFilter
                      in1 == IF f.set /\ ~d1.inRange /\ id \in f.Start THEN TRUE ELSE d1.inRange
                      in2 == IF f.set /\ in1 /\ id \in f.End THEN FALSE ELSE in1
                      d2 == [d1 EXCEPT !.visited = @ \cup {id}, !.inRange = in2]
                      after ==
                          IF d2.maxDepth < 0 \/ item.depth < d2.maxDepth
                          THEN {[d2 EXCEPT !.stack = @ \o Pushed(S, d2, item, ord)] :
                                    ord \in NeighborOrders(S, d2, item.node)}
                          ELSE {d2}
                  IN  IF ~f.set \/ in2 \/ id \in f.End
                      THEN {[dfs |-> d3, ret |-> id, depth |-> item.depth] : d3 \in after}
                      ELSE UNION {NextResults(S, d3) : d3 \in after}

(* A graph as AddNode and AddEdge build it.                                *)
EmptyStore ==
    [nodes |-> EmptyMap, out |-> EmptyMap, in |-> EmptyMap,
     nodeHeap |-> EmptyMap, edgeHeap |-> EmptyMap]

RECURSIVE AddNodes(_, _)
AddNodes(S, ids) ==
    IF ids = {} THEN S
    ELSE LET id == CHOOSE x \in ids : TRUE
         IN  AddNodes(AddNode(S, id, ConcProps).S, ids \ {id})

RECURSIVE AddEdges(_, _)
AddEdges(S, es) ==
    IF es = {} THEN S
    ELSE LET e == CHOOSE x \in es : TRUE
         IN  AddEdges(AddEdge(S, e[1], e[2], 1).S, es \ {e})

BuildGraph(ids, es) == AddEdges(AddNodes(EmptyStore, ids), es)

EdgeSets(maxEdges) == {E \in SUBSET (DfsIds \X DfsIds) : Cardinality(E) <= maxEdges}

(* The caller creates the iterator with a direction, a max depth drawn     *)
(* from depths and a range filter drawn from filters.                      *)
CreatesWith(depths, filters) ==
    /\ ~dfs.made
    /\ \E startID \in DfsIds \cup {"X"}, direction \in {Outgoing, Incoming},
          maxDepth \in depths, filter \in filters :
          LET r == NewDFS(Store, startID, direction, maxDepth, filter)
          IN  /\ dfs' = r.dfs
              /\ err' = r.err
              /\ call' = Call("NewDFS", startID, "", 0, NoProps)
    /\ yielded' = <<>>
    /\ yieldedAt' = <<>>
    /\ UNCHANGED <<storeVars, aliasVars, concVars, iter, execVars, textVars>>

Creates(depths) == CreatesWith(depths, {NoFilter})

(* WithRangeFilter(start, end) with predicates that hold for one node      *)
(* each, as n.ID == "A" and n.ID == "C" do.                                *)
RangeFilters == {[set |-> TRUE, Start |-> {x}, End |-> {y}] : x, y \in DfsIds}

(* NewDFS(g, startID, WithDirection(direction)): maxDepth keeps its        *)
(* default.                                                                *)
DoNewDFS == Creates({-1})

(* NewDFS(g, startID, WithDirection(direction), WithMaxDepth(maxDepth)).   *)
DoNewDFSWithMaxDepth == Creates(0..MaxDepthBound)

(* One round of Iterate's loop: HasNext, then Next.                        *)
DoNext ==
    /\ dfs.made
    /\ HasNext(dfs)
    /\ \E r \in NextResults(Store, dfs) :
          /\ dfs' = r.dfs
          /\ yielded' = IF r.ret = NilNode THEN yielded ELSE Append(yielded, r.ret)
          /\ yieldedAt' = IF r.ret = NilNode THEN yieldedAt ELSE Append(yieldedAt, r.depth)
    /\ UNCHANGED <<storeVars, callVars, aliasVars, concVars, iter, execVars, textVars>>

ErrEmptyNode == "empty node"
CallbackErr  == "callback error"

(* The visitor callbacks: one that never fails, one that fails on a given  *)
(* node, one that always fails.                                            *)
Callbacks == {{}} \cup {{n} : n \in DfsIds} \cup {DfsIds}

(* Iterate: every iterator state, returned error and sequence of callback  *)
(* invocations the call can end with.                                      *)
(* An Iterate that empties the stack when its callback fails.              *)
RECURSIVE IterateResults_Discard(_, _, _, _)
IterateResults_Discard(S, d, failOn, seen) ==
    IF ~HasNext(d) THEN {[dfs |-> d, err |-> NoErr, seen |-> seen, depths |-> <<>>]}
    ELSE UNION {IF r.ret = NilNode
                THEN {[dfs |-> r.dfs, err |-> ErrEmptyNode, seen |-> seen, depths |-> <<>>]}
                ELSE IF r.ret \in failOn
                THEN {[dfs |-> [r.dfs EXCEPT !.stack = <<>>], err |-> CallbackErr,
                       seen |-> Append(seen, r.ret), depths |-> <<r.depth>>]}
                ELSE {[r2 EXCEPT !.depths = <<r.depth>> \o @] :
                         r2 \in IterateResults_Discard(S, r.dfs, failOn, Append(seen, r.ret))} :
                    r \in NextResults(S, d)}

RECURSIVE IterateResults(_, _, _, _)
IterateResults(S, d, failOn, seen) ==
    IF ~HasNext(d) THEN {[dfs |-> d, err |-> NoErr, seen |-> seen, depths |-> <<>>]}
    ELSE UNION {IF r.ret = NilNode
                THEN {[dfs |-> r.dfs, err |-> ErrEmptyNode, seen |-> seen, depths |-> <<>>]}
                ELSE IF r.ret \in failOn
                THEN {[dfs |-> r.dfs, err |-> CallbackErr, seen |-> Append(seen, r.ret),
                       depths |-> <<r.depth>>]}
                ELSE {[r2 EXCEPT !.depths = <<r.depth>> \o @] :
                         r2 \in IterateResults(S, r.dfs, failOn, Append(seen, r.ret))} :
                    r \in NextResults(S, d)}

(* The caller runs Iterate with a visitor callback, once.                  *)
DoIterate ==
    /\ dfs.made
    /\ ~iter.done
    /\ \E failOn \in Callbacks :
          \E r \in IterateResults(Store, dfs, failOn, <<>>) :
              /\ dfs' = r.dfs
              /\ yielded' = yielded \o r.seen
              /\ yieldedAt' = yieldedAt \o r.depths
              /\ iter' = [done |-> TRUE, err |-> r.err, seen |-> r.seen, failOn |-> failOn]
    /\ UNCHANGED <<storeVars, callVars, aliasVars, concVars, execVars, textVars>>

(* The graph is built before the traversal and not changed during it.     *)
Built(maxEdges) ==
    /\ \E E \in EdgeSets(maxEdges) :
          LET S == BuildGraph(DfsIds, E)
          IN  /\ nodes = S.nodes
              /\ out = S.out
              /\ in = S.in
              /\ nodeHeap = S.nodeHeap
              /\ edgeHeap = S.edgeHeap
    /\ NoCalls
    /\ NoThreads
    /\ NoTraversal
    /\ NoText

InitDFS == Built(MaxEdges)

InitDFSDepth == Built(MaxEdgesDepth)

NextDFS ==
    \/ DoNewDFS
    \/ DoNext

(* Iterate keeps calling Next while HasNext holds.                         *)
SpecDFS == InitDFS /\ [][NextDFS]_vars /\ WF_vars(DoNext)

NextDFSDepth ==
    \/ DoNewDFSWithMaxDepth
    \/ DoNext

SpecDFSDepth == InitDFSDepth /\ [][NextDFSDepth]_vars /\ WF_vars(DoNext)

(* The iterator created on stores of every size, the empty one included.   *)
InitNewDFS ==
    /\ \E ids \in SUBSET DfsIds :
          \E E \in {F \in SUBSET (ids \X ids) : Cardinality(F) <= 1} :
              LET S == BuildGraph(ids, E)
              IN  /\ nodes = S.nodes
                  /\ out = S.out
                  /\ in = S.in
                  /\ nodeHeap = S.nodeHeap
                  /\ edgeHeap = S.edgeHeap
    /\ NoCalls
    /\ NoThreads
    /\ NoTraversal
    /\ NoText

NextNewDFS ==
    \/ DoNewDFS
    \/ DoNewDFSWithMaxDepth

SpecNewDFS == InitNewDFS /\ [][NextNewDFS]_vars

(* A caller that creates an iterator with any depth option, and then calls *)
(* Next and Iterate on it.                                                 *)
DoNewDFSAnyDepth == Creates({-1} \cup 0..MaxDepthBound)

(* NewDFS(g, startID, WithRangeFilter(start, end), WithDirection(d)).      *)
DoNewDFSWithRange == CreatesWith({-1}, RangeFilters)

NextRange ==
    \/ DoNewDFSWithRange
    \/ DoNext

SpecRange == InitDFS /\ [][NextRange]_vars /\ WF_vars(DoNext)

NextIterate ==
    \/ DoNewDFSAnyDepth
    \/ DoNext
    \/ DoIterate

SpecIterate == InitDFS /\ [][NextIterate]_vars /\ WF_vars(DoNext)

(* The same caller, who may also create the iterator with a range filter.  *)
NextIterateRange ==
    \/ DoNewDFSAnyDepth
    \/ DoNewDFSWithRange
    \/ DoNext
    \/ DoIterate

SpecIterateRange == InitDFS /\ [][NextIterateRange]_vars /\ WF_vars(DoNext)

----------------------------------------------------------------------------
(* Values.  A string value is the sequence of its characters, so that      *)
(* formatting and parsing are computed and not assumed.                    *)

Digits == <<"0", "1", "2", "3", "4", "5", "6", "7", "8", "9">>
IsDigit(c) == \E i \in 1..10 : Digits[i] = c
DigitVal(c) == (CHOOSE i \in 1..10 : Digits[i] = c) - 1

StrV(s)      == [kind |-> "string", s |-> s, i |-> 0, half |-> FALSE]
IntV(i)      == [kind |-> "int", s |-> <<>>, i |-> i, half |-> FALSE]
(* The float64 i, or i + 0.5 when half.                                    *)
FloatV(i, half) == [kind |-> "float", s |-> <<>>, i |-> i, half |-> half]

(* strconv.Itoa / the %d verb, for i >= 0 and i < 0.                        *)
RECURSIVE Itoa(_)
Itoa(i) ==
    IF i < 0 THEN <<"-">> \o Itoa(-i)
    ELSE IF i < 10 THEN <<Digits[i + 1]>>
    ELSE Itoa(i \div 10) \o <<Digits[(i % 10) + 1]>>

(* The uint i, and the bool that is true when i = 1.                       *)
UintV(i)     == [kind |-> "uint", s |-> <<>>, i |-> i, half |-> FALSE]
BoolV(b)     == [kind |-> "bool", s |-> <<>>, i |-> IF b THEN 1 ELSE 0, half |-> FALSE]

(* fmt.Sprint of a stored value (the %v verb).                             *)
Sprint(v) ==
    IF v.kind = "string" THEN v.s
    ELSE IF v.kind \in {"int", "uint"} THEN Itoa(v.i)
    ELSE IF v.kind = "bool"
    THEN (IF v.i = 1 THEN <<"t", "r", "u", "e">> ELSE <<"f", "a", "l", "s", "e">>)
    ELSE Itoa(v.i) \o (IF v.half THEN <<".", "5">> ELSE <<>>)

RECURSIVE DigitsVal(_)
DigitsVal(s) ==
    IF Len(s) = 0 THEN 0
    ELSE DigitsVal(SubSeq(s, 1, Len(s) - 1)) * 10 + DigitVal(s[Len(s)])

(* strconv.Atoi: an optional sign, then one or more digits.                *)
Atoi(s) ==
    LET signed == Len(s) > 0 /\ s[1] \in {"+", "-"}
        body == IF signed THEN SubSeq(s, 2, Len(s)) ELSE s
    IN  IF Len(body) = 0 \/ \E i \in 1..Len(body) : ~IsDigit(body[i])
        THEN [ok |-> FALSE, val |-> 0]
        ELSE [ok |-> TRUE,
              val |-> IF signed /\ s[1] = "-" THEN -DigitsVal(body) ELSE DigitsVal(body)]

----------------------------------------------------------------------------
(* The query AST, as far as the executor reads it.                         *)

NilVar   == [isNil |-> TRUE, name |-> ""]
VarOf(n) == [isNil |-> FALSE, name |-> n]
NilInt   == [isNil |-> TRUE, val |-> 0]
IntOf(i) == [isNil |-> FALSE, val |-> i]

StrLiteral(s)     == [expr |-> "StrLiteral", s |-> s, i |-> 0]
IntegerLiteral(i) == [expr |-> "IntegerLiteral", s |-> <<>>, i |-> i]
VariableExpr(n)   == [expr |-> "Variable", s |-> n, i |-> 0]

EdgeUndefined == "EdgeUndefined"
EdgeRight     == "EdgeRight"
EdgeLeft      == "EdgeLeft"

Ascending  == "Ascending"
Descending == "Descending"

NodePattern(v, labels, props) ==
    [kind |-> "NodePattern", Variable |-> v, Labels |-> labels, Properties |-> props,
     Direction |-> EdgeUndefined, MinHops |-> NilInt, MaxHops |-> NilInt]

EdgePattern(direction, minHops, maxHops) ==
    [kind |-> "EdgePattern", Variable |-> NilVar, Labels |-> <<>>, Properties |-> <<>>,
     Direction |-> direction, MinHops |-> minHops, MaxHops |-> maxHops]

(* The zero EdgePattern.                                                   *)
NoEdgePattern == EdgePattern(EdgeUndefined, NilInt, NilInt)

MatchPattern(elements) == [Elements |-> elements]
ReadingClause(patterns) == [Pattern |-> patterns]
SingleQuery(reading, order, skip, limit) ==
    [Reading |-> reading, Order |-> order, Skip |-> skip, Limit |-> limit]

----------------------------------------------------------------------------
(* The query executor that walks with the depth-first iterator and keeps   *)
(* the nodes inside the hop window.                                        *)

ErrNoMatch   == "no MATCH clause found"
ErrNoPattern == "no pattern found in MATCH clause"
ErrNotNode   == "expected NodePattern as first element"

NodeOf(S, id) == S.nodeHeap[S.nodes[id]]

CurDepth(d) == IF Len(d.stack) = 0 THEN -1 ELSE d.stack[Len(d.stack)].depth

convertDirection(direction) == IF direction = EdgeLeft THEN Incoming ELSE Outgoing

hasAllLabels(n, labels) == \A i \in 1..Len(labels) : labels[i] \in SeqRange(n.Labels)

(* One declared property of a node pattern against the node.               *)
PropertyMatches(n, k, e) ==
    /\ k \in DOMAIN n.Properties.kv
    /\ LET actual == Sprint(n.Properties.kv[k])
       IN  IF e.expr = "StrLiteral" THEN actual = e.s
           ELSE IF e.expr = "IntegerLiteral"
           THEN Atoi(actual).ok /\ Atoi(actual).val = e.i
           ELSE FALSE

NodeMatches(n, np) ==
    /\ Len(np.Labels) > 0 => hasAllLabels(n, np.Labels)
    /\ \A k \in DOMAIN np.Properties : PropertyMatches(n, k, np.Properties[k])

(* ord: the iteration order of AllNodes' range over g.nodes.               *)
findNodesByPattern(S, np, ord) ==
    LET all == AllNodes(S, ord).ret.nodes
    IN  SelectSeq(all, LAMBDA p : NodeMatches(S.nodeHeap[p], np))

(* The elements of every pattern of the clause, in order.                  *)
RECURSIVE AllElements(_)
AllElements(patterns) ==
    IF Len(patterns) = 0 THEN <<>>
    ELSE patterns[1].Elements \o AllElements(Tail(patterns))

(* The loop that takes the variable names and the edge pattern.            *)
RECURSIVE Bindings(_, _)
Bindings(elems, acc) ==
    IF Len(elems) = 0 THEN acc
    ELSE LET v == elems[1]
             next ==
                 IF v.kind = "NodePattern"
                 THEN IF v.Variable.isNil THEN acc
                      ELSE IF acc.startVar = "" THEN [acc EXCEPT !.startVar = v.Variable.name]
                      ELSE [acc EXCEPT !.endVar = v.Variable.name]
                 ELSE [acc EXCEPT !.edgePattern = v]
         IN  Bindings(Tail(elems), next)

(* result[startVar] = startNode.Data; result[endVar] = n.Data              *)
Row(b, startData, endData) ==
    [k \in {b.startVar, b.endVar} \ {""} |-> IF k = b.endVar THEN endData ELSE startData]

(* dfs.Iterate with the collecting callback: the rows and the error it     *)
(* can end with.                                                           *)
RECURSIVE CollectRows(_, _, _, _, _, _)
CollectRows(S, d, b, startData, seen, rows) ==
    IF ~HasNext(d) THEN {[err |-> NoErr, rows |-> rows]}
    ELSE UNION {
        IF r.ret = NilNode THEN {[err |-> ErrEmptyNode, rows |-> rows]}
        ELSE LET currentDepth == CurDepth(r.dfs)
                 data == NodeOf(S, r.ret).Data
             IN  IF currentDepth < b.minHops \/ (b.maxHops # -1 /\ currentDepth > b.maxHops)
                 THEN CollectRows(S, r.dfs, b, startData, seen, rows)
                 ELSE IF data \in seen
                 THEN CollectRows(S, r.dfs, b, startData, seen, rows)
                 ELSE CollectRows(S, r.dfs, b, startData, seen \cup {data},
                                  Append(rows, Row(b, startData, data))) :
        r \in NextResults(S, d)}

(* The loop over the start nodes.                                          *)
RECURSIVE ForStartNodes(_, _, _, _, _)
ForStartNodes(S, startNodes, b, i, rows) ==
    IF i > Len(startNodes) THEN {[err |-> NoErr, rows |-> rows]}
    ELSE LET startNode == S.nodeHeap[startNodes[i]]
             nd == NewDFS(S, startNode.ID, convertDirection(b.edgePattern.Direction),
                          b.maxHops, NoFilter)
         IN  IF nd.err # NoErr THEN {[err |-> nd.err, rows |-> <<>>]}
             ELSE UNION {
                 IF c.err # NoErr THEN {[err |-> c.err, rows |-> <<>>]}
                 ELSE ForStartNodes(S, startNodes, b, i + 1, c.rows) :
                 c \in CollectRows(S, nd.dfs, b, startNode.Data, {}, rows)}

(* ExecuteQuery: the results it can return, with the start nodes it found. *)
ExecuteQuery(S, q) ==
    IF Len(q.Reading) = 0 THEN {[err |-> ErrNoMatch, rows |-> <<>>, starts |-> <<>>]}
    ELSE LET matchClause == q.Reading[1]
             b0 == Bindings(AllElements(matchClause.Pattern),
                            [startVar |-> "", endVar |-> "", edgePattern |-> NoEdgePattern])
             b == [startVar |-> b0.startVar, endVar |-> b0.endVar,
                   edgePattern |-> b0.edgePattern,
                   minHops |-> IF b0.edgePattern.MinHops.isNil THEN 1
                               ELSE b0.edgePattern.MinHops.val,
                   maxHops |-> IF b0.edgePattern.MaxHops.isNil THEN -1
                               ELSE b0.edgePattern.MaxHops.val]
         IN  IF Len(matchClause.Pattern) = 0
             THEN {[err |-> ErrNoPattern, rows |-> <<>>, starts |-> <<>>]}
             ELSE IF Len(matchClause.Pattern[1].Elements) = 0
             THEN {[err |-> Panic, rows |-> <<>>, starts |-> <<>>]}
             ELSE IF matchClause.Pattern[1].Elements[1].kind # "NodePattern"
             THEN {[err |-> ErrNotNode, rows |-> <<>>, starts |-> <<>>]}
             ELSE UNION {
                 LET startNodes == findNodesByPattern(S, matchClause.Pattern[1].Elements[1], ord)
                     starts == [i \in 1..Len(startNodes) |-> S.nodeHeap[startNodes[i]].ID]
                 IN  {[err |-> r.err, rows |-> r.rows, starts |-> starts] :
                         r \in ForStartNodes(S, startNodes, b, 1, <<>>)} :
                 ord \in Perms(DOMAIN S.nodes)}

----------------------------------------------------------------------------
(* Queries on a loaded graph.                                              *)

NilExpr   == [isNil |-> TRUE, e |-> IntegerLiteral(0)]
ExprOf(e) == [isNil |-> FALSE, e |-> e]

(* A node as the loader leaves it: AddNode, then its data, labels and      *)
(* properties.                                                             *)
AddDataNode(S, id, data, labels, props) ==
    LET T == AddNode(S, id, props).S
    IN  [T EXCEPT !.nodeHeap[T.nodes[id]] =
            [ID |-> id, Data |-> data, Labels |-> labels, Properties |-> props]]

RECURSIVE AddDataNodes(_, _, _)
AddDataNodes(S, ids, attrs) ==
    IF ids = {} THEN S
    ELSE LET id == CHOOSE x \in ids : TRUE
         IN  AddDataNodes(AddDataNode(S, id, attrs[id].Data, attrs[id].Labels,
                                      attrs[id].Properties),
                          ids \ {id}, attrs)

BuildDataGraph(ids, attrs, es) == AddEdges(AddDataNodes(EmptyStore, ids, attrs), es)

(* Node data: every node its own, or C and D with equal data.              *)
DataChoices ==
    {[n \in DfsIds |-> n], [n \in DfsIds |-> IF n \in {"C", "D"} THEN "CD" ELSE n]}

(* The nodes that carry the property k = "v".                              *)
MarkedChoices == {{"A"}, {"A", "B"}}

KV == [k \in {"k"} |-> StrV(<<"v">>)]

QueryAttrs ==
    {[n \in DfsIds |-> [Data |-> data[n], Labels |-> <<>>,
                        Properties |-> IF n \in marked THEN GoMap(KV) ELSE NilMap]] :
        data \in DataChoices, marked \in MarkedChoices}

MaxHopsBound == 3

HopWindows ==
    {<<NilInt, NilInt>>, <<IntOf(1), IntOf(MaxHopsBound)>>, <<IntOf(0), IntOf(1)>>,
     <<IntOf(2), IntOf(2)>>}

(* ORDER BY b DESC; SKIP 1 LIMIT 1; or none of them.                       *)
Tails ==
    {[Order |-> <<>>, Skip |-> NilExpr, Limit |-> NilExpr],
     [Order |-> <<[Dir |-> Descending, Item |-> VariableExpr("b")]>>,
      Skip |-> NilExpr, Limit |-> NilExpr],
     [Order |-> <<>>, Skip |-> ExprOf(IntegerLiteral(1)), Limit |-> ExprOf(IntegerLiteral(1))]}

(* MATCH (v1 {props})-[*min..max]->(v2) RETURN ... with the given tail.    *)
HopQuery(v1, v2, props, direction, w, t) ==
    SingleQuery(
        <<ReadingClause(<<MatchPattern(
            <<NodePattern(v1, <<>>, props),
              EdgePattern(direction, w[1], w[2]),
              NodePattern(v2, <<>>, <<>>)>>)>>)>>,
        t.Order, t.Skip, t.Limit)

NoTail == [Order |-> <<>>, Skip |-> NilExpr, Limit |-> NilExpr]
KIsV == [k \in {"k"} |-> StrLiteral(<<"v">>)]
DefaultWindow == <<IntOf(1), IntOf(MaxHopsBound)>>

(* MATCH (a {k: 'v'})-[*1..3]->(b) RETURN a, b and its variants: each hop  *)
(* window in either direction; each node pattern named or anonymous; the   *)
(* property given or not; each tail.                                       *)
Queries ==
    {HopQuery(VarOf("a"), VarOf("b"), KIsV, direction, w, NoTail) :
        direction \in {EdgeRight, EdgeLeft}, w \in HopWindows}
    \cup {HopQuery(v1, v2, KIsV, EdgeRight, DefaultWindow, NoTail) :
        v1 \in {NilVar, VarOf("a")}, v2 \in {NilVar, VarOf("b")}}
    \cup {HopQuery(VarOf("a"), VarOf("b"), <<>>, EdgeRight, DefaultWindow, NoTail)}
    \cup {HopQuery(VarOf("a"), VarOf("b"), KIsV, EdgeRight, DefaultWindow, t) : t \in Tails}

(* The caller executes one query.                                          *)
DoExecuteQuery ==
    /\ ~exec.done
    /\ \E q \in Queries : \E r \in ExecuteQuery(Store, q) :
          exec' = [done |-> TRUE, query |-> q, err |-> r.err, rows |-> r.rows,
                   starts |-> r.starts]
    /\ UNCHANGED <<storeVars, callVars, aliasVars, concVars, dfsVars, textVars>>

InitQuery ==
    /\ \E E \in EdgeSets(MaxEdges), attrs \in QueryAttrs :
          LET S == BuildDataGraph(DfsIds, attrs, E)
          IN  /\ nodes = S.nodes
              /\ out = S.out
              /\ in = S.in
              /\ nodeHeap = S.nodeHeap
              /\ edgeHeap = S.edgeHeap
    /\ NoCalls
    /\ NoThreads
    /\ NoTraversal
    /\ NoText

NextQuery == DoExecuteQuery

SpecQuery == InitQuery /\ [][NextQuery]_vars

----------------------------------------------------------------------------
(* The start nodes of a query: the matcher of the executor above, and the  *)
(* matcher of the executor that walks with a range filter.                 *)

(* int(val.Float()): the float64 truncated.                                *)
Truncated(v) == v.i

(* A matcher that asks only for the key.                                   *)
nodeMatchesPattern_KeyOnly(np, n) ==
    \A k \in DOMAIN np.Properties : k \in DOMAIN n.Properties.kv

(* nodeMatchesPattern(np)(node), for np # nil (np is &np of a value).      *)
nodeMatchesPattern(np, n) ==
    \A k \in DOMAIN np.Properties :
        /\ k \in DOMAIN n.Properties.kv
        /\ LET nodeVal == n.Properties.kv[k]
               e == np.Properties[k]
           IN  IF e.expr = "StrLiteral" THEN Sprint(nodeVal) = e.s
               ELSE IF e.expr = "IntegerLiteral"
               THEN IF nodeVal.kind \in {"int", "uint"} THEN nodeVal.i = e.i
                    ELSE IF nodeVal.kind = "float" THEN Truncated(nodeVal) = e.i
                    ELSE IF nodeVal.kind = "string"
                    THEN Atoi(nodeVal.s).ok /\ Atoi(nodeVal.s).val = e.i
                    ELSE FALSE
               ELSE FALSE

(* findNodesByPattern of the range-filter executor: AllNodes, filtered by  *)
(* the matcher.                                                            *)
findNodesByMatcher(S, np, ord) ==
    LET all == AllNodes(S, ord).ret.nodes
    IN  SelectSeq(all, LAMBDA p : nodeMatchesPattern(np, S.nodeHeap[p]))

MatchIds == {"A", "B"}

LabelChoices == {<<>>, <<"P">>, <<"P", "Q">>}

ValueChoices ==
    {NilMap} \cup
    {GoMap([k \in {"k"} |-> v]) : v \in {StrV(<<"v">>), StrV(<<"5">>), IntV(5), IntV(7)}}

MatchAttrs ==
    [MatchIds -> {[Data |-> "", Labels |-> l, Properties |-> p] :
                     l \in LabelChoices, p \in ValueChoices}]

(* (a), (a:P), (a:Q), (a:P:Q), each with no property, {k: 'v'} or {k: 5}.  *)
StartPatterns ==
    {NodePattern(VarOf("a"), l, p) :
        l \in {<<>>, <<"P">>, <<"Q">>, <<"P", "Q">>},
        p \in {<<>>, KIsV, [k \in {"k"} |-> IntegerLiteral(5)]}}

StartQuery(np) ==
    SingleQuery(<<ReadingClause(<<MatchPattern(<<np>>)>>)>>, <<>>, NilExpr, NilExpr)

Finds(op, found(_, _)) ==
    /\ ~exec.done
    /\ \E np \in StartPatterns : \E ord \in Perms(DOMAIN nodes) :
          LET startNodes == found(np, ord)
          IN  exec' = [done |-> TRUE, query |-> StartQuery(np), err |-> NoErr,
                       rows |-> <<>>,
                       starts |-> [i \in 1..Len(startNodes) |-> nodeHeap[startNodes[i]].ID]]
    /\ call' = Call(op, "", "", 0, NoProps)
    /\ UNCHANGED <<storeVars, err, aliasVars, concVars, dfsVars, textVars>>

(* findStartNodes of the executor with the hop window.                     *)
DoFindStartNodes ==
    Finds("findNodesByPattern", LAMBDA np, ord : findNodesByPattern(Store, np, ord))

(* findStartNodes of the executor with the range filter.                   *)
DoFindStartNodesByMatcher ==
    Finds("nodeMatchesPattern", LAMBDA np, ord : findNodesByMatcher(Store, np, ord))

InitMatch ==
    /\ \E attrs \in MatchAttrs :
          LET S == BuildDataGraph(MatchIds, attrs, {})
          IN  /\ nodes = S.nodes
              /\ out = S.out
              /\ in = S.in
              /\ nodeHeap = S.nodeHeap
              /\ edgeHeap = S.edgeHeap
    /\ NoCalls
    /\ NoThreads
    /\ NoTraversal
    /\ NoText

NextMatch ==
    \/ DoFindStartNodes
    \/ DoFindStartNodesByMatcher

SpecMatch == InitMatch /\ [][NextMatch]_vars

----------------------------------------------------------------------------
(* The query executor that walks with a range filter: the walk from a      *)
(* start node yields from the node that matches the first node pattern to  *)
(* the node that matches the last one.                                     *)

ErrSinglePattern == "only single pattern is supported"
ErrStructure     == "invalid pattern structure, expected (start)-[...]->(end)"
ErrFirstElement  == "first element must be node pattern"
ErrSecondElement == "second element must be edge pattern"
ErrThirdElement  == "third element must be node pattern"

(* The ids of the nodes a pattern's matcher holds for.                     *)
MatchedIds(S, np) ==
    {id \in DOMAIN S.nodes : nodeMatchesPattern(np, NodeOf(S, id))}

(* result := {"ID": n.ID, "Properties": n.Properties}, for each node the   *)
(* callback was given.                                                     *)
RangeRows(S, seen) ==
    [i \in 1..Len(seen) |-> [ID |-> seen[i], Properties |-> NodeOf(S, seen[i]).Properties]]

(* The loop over the start nodes; the error of Iterate is dropped.         *)
RECURSIVE ForRangeStartNodes(_, _, _, _, _, _)
ForRangeStartNodes(S, startNodes, direction, filter, i, rows) ==
    IF i > Len(startNodes) THEN {[err |-> NoErr, rows |-> rows]}
    ELSE LET nd == NewDFS(S, S.nodeHeap[startNodes[i]].ID, direction, -1, filter)
         IN  IF nd.err # NoErr THEN {[err |-> nd.err, rows |-> <<>>]}
             ELSE UNION {
                 ForRangeStartNodes(S, startNodes, direction, filter, i + 1,
                                    rows \o RangeRows(S, r.seen)) :
                 r \in IterateResults(S, nd.dfs, {}, <<>>)}

ExecuteRangeQuery(S, q) ==
    IF Len(q.Reading) = 0 THEN {[err |-> ErrNoMatch, rows |-> <<>>, starts |-> <<>>]}
    ELSE LET matchClause == q.Reading[1]
         IN  IF Len(matchClause.Pattern) # 1
             THEN {[err |-> ErrSinglePattern, rows |-> <<>>, starts |-> <<>>]}
             ELSE LET elems == matchClause.Pattern[1].Elements
                  IN  IF Len(elems) # 3
                      THEN {[err |-> ErrStructure, rows |-> <<>>, starts |-> <<>>]}
                      ELSE IF elems[1].kind # "NodePattern"
                      THEN {[err |-> ErrFirstElement, rows |-> <<>>, starts |-> <<>>]}
                      ELSE IF elems[2].kind # "EdgePattern"
                      THEN {[err |-> ErrSecondElement, rows |-> <<>>, starts |-> <<>>]}
                      ELSE IF elems[3].kind # "NodePattern"
                      THEN {[err |-> ErrThirdElement, rows |-> <<>>, starts |-> <<>>]}
                      ELSE UNION {
                          LET startNodes == findNodesByMatcher(S, elems[1], ord)
                              starts == [i \in 1..Len(startNodes) |->
                                            S.nodeHeap[startNodes[i]].ID]
                              filter == [set |-> TRUE, Start |-> MatchedIds(S, elems[1]),
                                         End |-> MatchedIds(S, elems[3])]
                          IN  {[err |-> r.err, rows |-> r.rows, starts |-> starts] :
                                  r \in ForRangeStartNodes(S, startNodes,
                                            convertDirection(elems[2].Direction),
                                            filter, 1, <<>>)} :
                          ord \in Perms(DOMAIN S.nodes)}

KIsW == [k \in {"k"} |-> StrLiteral(<<"w">>)]

(* Each node but A carries k = "v", k = "w" or no property; A carries      *)
(* k = "v".                                                                *)
RangeAttrs ==
    {[n \in DfsIds |-> [Data |-> "", Labels |-> <<>>,
                        Properties |-> IF n = "A" THEN GoMap(KV) ELSE p[n]]] :
        p \in [DfsIds -> {NilMap, GoMap(KV), GoMap([k \in {"k"} |-> StrV(<<"w">>)])}]}

(* MATCH (x {k: 'v'})-[*]->(y {k: 'w'}) RETURN y, in either direction, and *)
(* a pattern of one node.                                                  *)
RangeQueries ==
    {SingleQuery(<<ReadingClause(<<MatchPattern(
            <<NodePattern(VarOf("x"), <<>>, KIsV),
              EdgePattern(direction, NilInt, NilInt),
              NodePattern(VarOf("y"), <<>>, KIsW)>>)>>)>>,
        <<>>, NilExpr, NilExpr) : direction \in {EdgeRight, EdgeLeft}}
    \cup {StartQuery(NodePattern(VarOf("x"), <<>>, KIsV))}

DoExecuteRangeQuery ==
    /\ ~exec.done
    /\ \E q \in RangeQueries : \E r \in ExecuteRangeQuery(Store, q) :
          exec' = [done |-> TRUE, query |-> q, err |-> r.err, rows |-> r.rows,
                   starts |-> r.starts]
    /\ UNCHANGED <<storeVars, callVars, aliasVars, concVars, dfsVars, textVars>>

InitRangeQuery ==
    /\ \E E \in EdgeSets(MaxEdges), attrs \in RangeAttrs :
          LET S == BuildDataGraph(DfsIds, attrs, E)
          IN  /\ nodes = S.nodes
              /\ out = S.out
              /\ in = S.in
              /\ nodeHeap = S.nodeHeap
              /\ edgeHeap = S.edgeHeap
    /\ NoCalls
    /\ NoThreads
    /\ NoTraversal
    /\ NoText

NextRangeQuery == DoExecuteRangeQuery

SpecRangeQuery == InitRangeQuery /\ [][NextRangeQuery]_vars

----------------------------------------------------------------------------
(* The query executor that collects paths breadth first: every path from   *)
(* a start node whose length is inside the hop window gives a row.         *)

ErrExpectedNode  == "expected NodePattern but got another element"
ErrVariableProps == "variable properties not supported yet"
ErrUnsupported   == "unsupported property type"

(* &Path{Current: n, Previous: prev, Depth: d}; prev is NilPath or a path. *)
NilPath == [isNil |-> TRUE]
PathTo(n, prev, d) == [isNil |-> FALSE, Current |-> n, Previous |-> prev, Depth |-> d]

(* The nodes of a path, the last one reached first.                        *)
RECURSIVE PathNodes(_)
PathNodes(p) ==
    IF p.isNil THEN <<>> ELSE <<p.Current>> \o PathNodes(p.Previous)

(* Path.End: the Current of the path that has no Previous.                 *)
RECURSIVE End(_)
End(p) ==
    IF p.Previous.isNil THEN p.Current ELSE End(p.Previous)

(* pathContains: some path on the chain has the node's id as Current.      *)
pathContains(S, path, node) ==
    \E i \in 1..Len(PathNodes(path)) :
        S.nodeHeap[PathNodes(path)[i]].ID = S.nodeHeap[node].ID

(* matchProperties; keys: the order of the range over props.  ok is the    *)
(* bool returned, err the error.                                           *)
RECURSIVE matchProperties(_, _, _)
matchProperties(n, props, keys) ==
    IF Len(keys) = 0 THEN [ok |-> TRUE, err |-> NoErr]
    ELSE LET key == Head(keys)
             e == props[key]
         IN  IF key \notin DOMAIN n.Properties.kv THEN [ok |-> FALSE, err |-> NoErr]
             ELSE LET nodeVal == n.Properties.kv[key]
                  IN  IF e.expr = "StrLiteral"
                      THEN IF nodeVal.kind = "string" /\ nodeVal.s = e.s
                           THEN matchProperties(n, props, Tail(keys))
                           ELSE [ok |-> FALSE, err |-> NoErr]
                      ELSE IF e.expr = "IntegerLiteral"
                      THEN IF Atoi(Sprint(nodeVal)).ok /\ Atoi(Sprint(nodeVal)).val = e.i
                           THEN matchProperties(n, props, Tail(keys))
                           ELSE [ok |-> FALSE, err |-> NoErr]
                      ELSE IF e.expr = "Variable"
                      THEN [ok |-> FALSE, err |-> ErrVariableProps]
                      ELSE [ok |-> FALSE, err |-> ErrUnsupported]

(* findNodesByPattern of this executor: the loop over AllNodes from its    *)
(* i-th node on.  The results it can have, over the orders of the ranges   *)
(* over np.Properties.                                                     *)
RECURSIVE FilterNodes(_, _, _, _, _)
FilterNodes(S, np, all, i, filtered) ==
    IF i > Len(all) THEN {[err |-> NoErr, nodes |-> filtered]}
    ELSE LET node == S.nodeHeap[all[i]]
         IN  IF Len(np.Labels) > 0 /\ ~hasAllLabels(node, np.Labels)
             THEN FilterNodes(S, np, all, i + 1, filtered)
             ELSE UNION {
                 LET m == matchProperties(node, np.Properties, keys)
                 IN  IF m.err # NoErr THEN {[err |-> m.err, nodes |-> <<>>]}
                     ELSE IF ~m.ok THEN FilterNodes(S, np, all, i + 1, filtered)
                     ELSE FilterNodes(S, np, all, i + 1, Append(filtered, all[i])) :
                 keys \in Perms(DOMAIN np.Properties)}

(* ord: the iteration order of AllNodes' range over g.nodes.               *)
findNodesByProperties(S, np, ord) ==
    FilterNodes(S, np, AllNodes(S, ord).ret.nodes, 1, <<>>)

(* The edges traversePaths reads for the node id, over the orders in which *)
(* GetOutEdges and GetInEdges range over the node's adjacency maps; skip:  *)
(* the loop continues with the next path.                                  *)
PathEdges(S, direction, id) ==
    IF direction = EdgeRight
    THEN {[skip |-> FALSE, edges |-> GetOutEdges(S, id, ord).ret.edges] :
             ord \in Perms(KeysOf(S.out, id))}
    ELSE IF direction = EdgeLeft
    THEN {[skip |-> FALSE, edges |-> GetInEdges(S, id, ord).ret.edges] :
             ord \in Perms(KeysOf(S.in, id))}
    ELSE IF GetOutEdges(S, id, <<>>).err # NoErr \/ GetInEdges(S, id, <<>>).err # NoErr
    THEN {[skip |-> TRUE, edges |-> <<>>]}
    ELSE {[skip |-> FALSE,
           edges |-> GetOutEdges(S, id, ord1).ret.edges \o GetInEdges(S, id, ord2).ret.edges] :
             ord1 \in Perms(KeysOf(S.out, id)), ord2 \in Perms(KeysOf(S.in, id))}

(* The loop over the edges of the current path: the paths appended to the  *)
(* queue.                                                                  *)
RECURSIVE Extensions(_, _, _)
Extensions(S, currentPath, edges) ==
    IF Len(edges) = 0 THEN <<>>
    ELSE LET edge == S.edgeHeap[Head(edges)]
             r == IF edge.From = S.nodeHeap[currentPath.Current].ID
                  THEN GetNode(S, edge.To) ELSE GetNode(S, edge.From)
         IN  IF r.err # NoErr THEN Extensions(S, currentPath, Tail(edges))
             ELSE IF pathContains(S, currentPath, r.ret.nodes[1])
             THEN Extensions(S, currentPath, Tail(edges))
             ELSE <<PathTo(r.ret.nodes[1], currentPath, currentPath.Depth + 1)>>
                      \o Extensions(S, currentPath, Tail(edges))

(* The loop over the queue: the results it can end with.                   *)
RECURSIVE PathsLoop(_, _, _, _, _, _)
PathsLoop(S, direction, minHops, maxHops, queue, results) ==
    IF Len(queue) = 0 THEN {results}
    ELSE LET currentPath == Head(queue)
             results1 == IF currentPath.Depth >= minHops
                            /\ (maxHops = -1 \/ currentPath.Depth <= maxHops)
                         THEN Append(results, currentPath) ELSE results
         IN  IF maxHops # -1 /\ currentPath.Depth >= maxHops
             THEN PathsLoop(S, direction, minHops, maxHops, Tail(queue), results1)
             ELSE UNION {
                 PathsLoop(S, direction, minHops, maxHops,
                           IF e.skip THEN Tail(queue)
                           ELSE Tail(queue) \o Extensions(S, currentPath, e.edges),
                           results1) :
                 e \in PathEdges(S, direction, S.nodeHeap[currentPath.Current].ID)}

traversePaths(S, start, ep) ==
    PathsLoop(S, ep.Direction,
              IF ep.MinHops.isNil THEN 1 ELSE ep.MinHops.val,
              IF ep.MaxHops.isNil THEN -1 ELSE ep.MaxHops.val,
              <<PathTo(start, NilPath, 0)>>, <<>>)

(* The loop over the paths of one start node: a row for each pair of start *)
(* data and end data not seen yet.                                         *)
RECURSIVE PathRows(_, _, _, _, _, _)
PathRows(S, b, startNode, paths, seen, rows) ==
    IF Len(paths) = 0 THEN rows
    ELSE LET endNode == S.nodeHeap[End(Head(paths))]
             resultKey == <<startNode.Data, endNode.Data>>
         IN  IF resultKey \in seen THEN PathRows(S, b, startNode, Tail(paths), seen, rows)
             ELSE PathRows(S, b, startNode, Tail(paths), seen \cup {resultKey},
                           Append(rows, Row(b, startNode.Data, endNode.Data)))

(* The loop over the start nodes.                                          *)
RECURSIVE ForPathStartNodes(_, _, _, _, _)
ForPathStartNodes(S, startNodes, b, i, rows) ==
    IF i > Len(startNodes) THEN {rows}
    ELSE LET startNode == S.nodeHeap[startNodes[i]]
         IN  UNION {ForPathStartNodes(S, startNodes, b, i + 1,
                                      PathRows(S, b, startNode, paths, {}, rows)) :
                       paths \in traversePaths(S, startNodes[i], b.edgePattern)}

(* ExecuteQuery of this executor: the results it can return, with the      *)
(* start nodes it found.                                                   *)
ExecutePathQuery(S, q) ==
    IF Len(q.Reading) = 0 THEN {[err |-> ErrNoMatch, rows |-> <<>>, starts |-> <<>>]}
    ELSE LET matchClause == q.Reading[1]
             b == Bindings(AllElements(matchClause.Pattern),
                           [startVar |-> "", endVar |-> "", edgePattern |-> NoEdgePattern])
         IN  IF Len(matchClause.Pattern) = 0
             THEN {[err |-> Panic, rows |-> <<>>, starts |-> <<>>]}
             ELSE IF Len(matchClause.Pattern[1].Elements) = 0
             THEN {[err |-> Panic, rows |-> <<>>, starts |-> <<>>]}
             ELSE IF matchClause.Pattern[1].Elements[1].kind # "NodePattern"
             THEN {[err |-> ErrExpectedNode, rows |-> <<>>, starts |-> <<>>]}
             ELSE UNION {
                 UNION {
                     IF f.err # NoErr THEN {[err |-> f.err, rows |-> <<>>, starts |-> <<>>]}
                     ELSE {[err |-> NoErr, rows |-> rows,
                            starts |-> [i \in 1..Len(f.nodes) |-> S.nodeHeap[f.nodes[i]].ID]] :
                              rows \in ForPathStartNodes(S, f.nodes, b, 1, <<>>)} :
                     f \in findNodesByProperties(S, matchClause.Pattern[1].Elements[1], ord)} :
                 ord \in Perms(DOMAIN S.nodes)}

(* The caller executes one query with this executor.                       *)
DoExecutePathQuery ==
    /\ ~exec.done
    /\ \E q \in Queries : \E r \in ExecutePathQuery(Store, q) :
          exec' = [done |-> TRUE, query |-> q, err |-> r.err, rows |-> r.rows,
                   starts |-> r.starts]
    /\ UNCHANGED <<storeVars, callVars, aliasVars, concVars, dfsVars, textVars>>

PathIds == {"A", "B", "C"}

MaxPathEdges == 3

(* Every node has its id for data; A, or A and B, carry k = "v".           *)
PathAttrs ==
    {[n \in PathIds |-> [Data |-> n, Labels |-> <<>>,
                         Properties |-> IF n \in marked THEN GoMap(KV) ELSE NilMap]] :
        marked \in MarkedChoices}

InitPathQuery ==
    /\ \E E \in {F \in SUBSET {e \in PathIds \X PathIds : e[1] # e[2]} :
                     Cardinality(F) <= MaxPathEdges},
          attrs \in PathAttrs :
          LET S == BuildDataGraph(PathIds, attrs, E)
          IN  /\ nodes = S.nodes
              /\ out = S.out
              /\ in = S.in
              /\ nodeHeap = S.nodeHeap
              /\ edgeHeap = S.edgeHeap
    /\ NoCalls
    /\ NoThreads
    /\ NoTraversal
    /\ NoText

NextPathQuery == DoExecutePathQuery

SpecPathQuery == InitPathQuery /\ [][NextPathQuery]_vars

----------------------------------------------------------------------------
(* A pattern property given as an integer literal, against stored values   *)
(* of every kind, in each of the three executors.                          *)

(* "5", "x", 5, 7, uint 5, 5.5, 7.0, true, or no property at all.          *)
IntValueChoices ==
    {NilMap} \cup
    {GoMap([k \in {"k"} |-> v]) :
        v \in {StrV(<<"5">>), StrV(<<"x">>), IntV(5), IntV(7), UintV(5),
               FloatV(5, TRUE), FloatV(7, FALSE), BoolV(TRUE)}}

IntAttrs ==
    {[n \in MatchIds |-> [Data |-> n, Labels |-> <<>>, Properties |-> p[n]]] :
        p \in [MatchIds -> IntValueChoices]}

KIs5 == [k \in {"k"} |-> IntegerLiteral(5)]

(* MATCH (x {k: 5})-[*]->(y) RETURN x, y, in either direction.             *)
IntQueries ==
    {HopQuery(VarOf("x"), VarOf("y"), KIs5, direction, <<NilInt, NilInt>>, NoTail) :
        direction \in {EdgeRight, EdgeLeft}}

Executes(op, results) ==
    /\ \E r \in results :
          exec' = [done |-> TRUE, query |-> op[2], err |-> r.err, rows |-> r.rows,
                   starts |-> r.starts]
    /\ call' = Call(op[1], "", "", 0, NoProps)
    /\ UNCHANGED <<storeVars, err, aliasVars, concVars, dfsVars, textVars>>

ExecutesByHops ==
    /\ ~exec.done
    /\ \E q \in IntQueries : Executes(<<"ExecuteQuery", q>>, ExecuteQuery(Store, q))

ExecutesByRange ==
    /\ ~exec.done
    /\ \E q \in IntQueries :
          Executes(<<"ExecuteRangeQuery", q>>, ExecuteRangeQuery(Store, q))

ExecutesByPaths ==
    /\ ~exec.done
    /\ \E q \in IntQueries :
          Executes(<<"ExecutePathQuery", q>>, ExecutePathQuery(Store, q))

InitIntMatch ==
    /\ \E E \in SUBSET {<<"A", "B">>, <<"B", "A">>}, attrs \in IntAttrs :
          LET S == BuildDataGraph(MatchIds, attrs, E)
          IN  /\ nodes = S.nodes
              /\ out = S.out
              /\ in = S.in
              /\ nodeHeap = S.nodeHeap
              /\ edgeHeap = S.edgeHeap
    /\ NoCalls
    /\ NoThreads
    /\ NoTraversal
    /\ NoText

NextIntMatch ==
    \/ ExecutesByHops
    \/ ExecutesByRange
    \/ ExecutesByPaths

SpecIntMatch == InitIntMatch /\ [][NextIntMatch]_vars

----------------------------------------------------------------------------
(* The lexical scanner of query texts.  A text is the sequence of its      *)
(* characters; a token's literal is a sequence of characters too.          *)

(* eof: the marker the reader returns when it cannot read any more.        *)
eof == "eof"

LowerCase == <<"a", "b", "c", "d", "e", "f", "g", "h", "i", "j", "k", "l", "m", "n", "o", "p", "q", "r", "s", "t", "u", "v", "w", "x", "y", "z">>
UpperCase == <<"A", "B", "C", "D", "E", "F", "G", "H", "I", "J", "K", "L", "M", "N", "O", "P", "Q", "R", "S", "T", "U", "V", "W", "X", "Y", "Z">>

(* The back quote rune, which no text of the model holds.                  *)
backquote == "backquote"

isWhitespace(ch) == ch \in {" ", "\t", "\n"}
isLetter(ch) == ch \in SeqRange(LowerCase) \cup SeqRange(UpperCase)
isDigit(ch) == IsDigit(ch)
isIdentChar(ch) == isLetter(ch) \/ isDigit(ch) \/ ch = "_"

(* strings.ToLower, on the letters of an identifier.                       *)
ToLower(s) ==
    [k \in 1..Len(s) |->
        IF s[k] \in SeqRange(UpperCase)
        THEN LowerCase[CHOOSE j \in 1..Len(UpperCase) : UpperCase[j] = s[k]]
        ELSE s[k]]

(* The keywords map: the lower-case text of each keyword, and its token.   *)
keywords ==
    {<<<<"a", "d", "d">>, "ADD">>,
     <<<<"a", "l", "l">>, "ALL">>,
     <<<<"a", "s">>, "AS">>,
     <<<<"a", "s", "c">>, "ASC">>,
     <<<<"a", "s", "c", "e", "n", "d", "i", "n", "g">>, "ASCENDING">>,
     <<<<"b", "y">>, "BY">>,
     <<<<"c", "a", "s", "e">>, "CASE">>,
     <<<<"c", "o", "n", "s", "t", "r", "a", "i", "n", "t">>, "CONSTRAINT">>,
     <<<<"c", "o", "n", "t", "a", "i", "n", "s">>, "CONTAINS">>,
     <<<<"c", "r", "e", "a", "t", "e">>, "CREATE">>,
     <<<<"d", "e", "l", "e", "t", "e">>, "DELETE">>,
     <<<<"d", "e", "s", "c">>, "DESC">>,
     <<<<"d", "e", "s", "c", "e", "n", "d", "i", "n", "g">>, "DESCENDING">>,
     <<<<"d", "e", "t", "a", "c", "h">>, "DETACH">>,
     <<<<"d", "i", "s", "t", "i", "n", "c", "t">>, "DISTINCT">>,
     <<<<"d", "o">>, "DO">>,
     <<<<"d", "r", "o", "p">>, "DROP">>,
     <<<<"e", "l", "s", "e">>, "ELSE">>,
     <<<<"e", "n", "d">>, "END">>,
     <<<<"e", "n", "d", "s">>, "ENDS">>,
     <<<<"e", "x", "i", "s", "t", "s">>, "EXISTS">>,
     <<<<"f", "o", "r">>, "FOR">>,
     <<<<"i", "n">>, "IN">>,
     <<<<"i", "s">>, "IS">>,
     <<<<"l", "i", "m", "i", "t">>, "LIMIT">>,
     <<<<"m", "a", "n", "d", "a", "t", "o", "r", "y">>, "MANDATORY">>,
     <<<<"m", "a", "t", "c", "h">>, "MATCH">>,
     <<<<"m", "e", "r", "g", "e">>, "MERGE">>,
     <<<<"o", "f">>, "OF">>,
     <<<<"o", "n">>, "ON">>,
     <<<<"o", "p", "t", "i", "o", "n", "a", "l">>, "OPTIONAL">>,
     <<<<"o", "r", "d", "e", "r">>, "ORDER">>,
     <<<<"r", "e", "m", "o", "v", "e">>, "REMOVE">>,
     <<<<"r", "e", "q", "u", "i", "r", "e">>, "REQUIRE">>,
     <<<<"r", "e", "t", "u", "r", "n">>, "RETURN">>,
     <<<<"s", "c", "a", "l", "a", "r">>, "SCALAR">>,
     <<<<"s", "e", "t">>, "SET">>,
     <<<<"s", "k", "i", "p">>, "SKIP">>,
     <<<<"s", "t", "a", "r", "t", "s">>, "STARTS">>,
     <<<<"t", "h", "e", "n">>, "THEN">>,
     <<<<"u", "n", "i", "o", "n">>, "UNION">>,
     <<<<"u", "n", "i", "q", "u", "e">>, "UNIQUE">>,
     <<<<"u", "n", "w", "i", "n", "d">>, "UNWIND">>,
     <<<<"w", "h", "e", "n">>, "WHEN">>,
     <<<<"w", "h", "e", "r", "e">>, "WHERE">>,
     <<<<"w", "i", "t", "h">>, "WITH">>,
     <<<<"a", "n", "d">>, "AND">>,
     <<<<"o", "r">>, "OR">>,
     <<<<"x", "o", "r">>, "XOR">>,
     <<<<"n", "o", "t">>, "NOT">>,
     <<<<"t", "r", "u", "e">>, "TRUE">>,
     <<<<"f", "a", "l", "s", "e">>, "FALSE">>,
     <<<<"n", "u", "l", "l">>, "NULL">>}

Lookup(ident) ==
    IF \E e \in keywords : e[1] = ToLower(ident)
    THEN (CHOOSE e \in keywords : e[1] = ToLower(ident))[2]
    ELSE "IDENT"

(* var tokens: the text of every token, by the token's name. The tokens    *)
(* COMMENT, INTEGER, BADSTRING, BADESCAPE, NULL, INC and BAR have no entry *)
(* in the table, so their text is the empty string.                        *)
tokens ==
    "ILLEGAL" :> <<"I", "L", "L", "E", "G", "A", "L">> @@
    "EOF" :> <<"E", "O", "F">> @@
    "WS" :> <<"W", "S">> @@
    "COMMENT" :> <<>> @@
    "REL_RANGE" :> <<"R", "E", "L", "_", "R", "A", "N", "G", "E">> @@
    "IDENT" :> <<"I", "D", "E", "N", "T">> @@
    "NUMBER" :> <<"N", "U", "M", "B", "E", "R">> @@
    "INTEGER" :> <<>> @@
    "STRING" :> <<"S", "T", "R", "I", "N", "G">> @@
    "BADSTRING" :> <<>> @@
    "BADESCAPE" :> <<>> @@
    "TRUE" :> <<"T", "R", "U", "E">> @@
    "FALSE" :> <<"F", "A", "L", "S", "E">> @@
    "NULL" :> <<>> @@
    "PLUS" :> <<"+">> @@
    "SUB" :> <<"-">> @@
    "MUL" :> <<"*">> @@
    "DIV" :> <<"/">> @@
    "MOD" :> <<"%">> @@
    "POW" :> <<"^">> @@
    "AND" :> <<"A", "N", "D">> @@
    "OR" :> <<"O", "R">> @@
    "XOR" :> <<"X", "O", "R">> @@
    "NOT" :> <<"N", "O", "T">> @@
    "EQ" :> <<"=">> @@
    "NEQ" :> <<"<", ">">> @@
    "LT" :> <<"<">> @@
    "LTE" :> <<"<", "=">> @@
    "GT" :> <<">">> @@
    "GTE" :> <<">", "=">> @@
    "INC" :> <<>> @@
    "BAR" :> <<>> @@
    "LPAREN" :> <<"(">> @@
    "RPAREN" :> <<")">> @@
    "LBRACE" :> <<"{">> @@
    "RBRACE" :> <<"}">> @@
    "LBRACKET" :> <<"[">> @@
    "RBRACKET" :> <<"]">> @@
    "COMMA" :> <<",">> @@
    "COLON" :> <<":">> @@
    "SEMICOLON" :> <<";">> @@
    "DOT" :> <<".">> @@
    "DOUBLEDOT" :> <<".", ".">> @@
    "EDGE_RIGHT" :> <<"-", ">">> @@
    "EDGE_LEFT" :> <<"<", "-">> @@
    "ADD" :> <<"A", "D", "D">> @@
    "ALL" :> <<"A", "L", "L">> @@
    "AS" :> <<"A", "S">> @@
    "ASC" :> <<"A", "S", "C">> @@
    "ASCENDING" :> <<"A", "S", "C", "E", "N", "D", "I", "N", "G">> @@
    "BY" :> <<"B", "Y">> @@
    "CASE" :> <<"C", "A", "S", "E">> @@
    "CONSTRAINT" :> <<"C", "O", "N", "S", "T", "R", "A", "I", "N", "T">> @@
    "CONTAINS" :> <<"C", "O", "N", "T", "A", "I", "N", "S">> @@
    "CREATE" :> <<"C", "R", "E", "A", "T", "E">> @@
    "DELETE" :> <<"D", "E", "L", "E", "T", "E">> @@
    "DESC" :> <<"D", "E", "S", "C">> @@
    "DESCENDING" :> <<"D", "E", "S", "C", "E", "N", "D", "I", "N", "G">> @@
    "DETACH" :> <<"D", "E", "T", "A", "C", "H">> @@
    "DISTINCT" :> <<"D", "I", "S", "T", "I", "N", "C", "T">> @@
    "DO" :> <<"D", "O">> @@
    "DROP" :> <<"D", "R", "O", "P">> @@
    "ELSE" :> <<"E", "L", "S", "E">> @@
    "END" :> <<"E", "N", "D">> @@
    "ENDS" :> <<"E", "N", "D", "S">> @@
    "EXISTS" :> <<"E", "X", "I", "S", "T", "S">> @@
    "FOR" :> <<"F", "O", "R">> @@
    "IN" :> <<"I", "N">> @@
    "IS" :> <<"I", "S">> @@
    "LIMIT" :> <<"L", "I", "M", "I", "T">> @@
    "MANDATORY" :> <<"M", "A", "N", "D", "A", "T", "O", "R", "Y">> @@
    "MATCH" :> <<"M", "A", "T", "C", "H">> @@
    "MERGE" :> <<"M", "E", "R", "G", "E">> @@
    "OF" :> <<"O", "F">> @@
    "ON" :> <<"O", "N">> @@
    "OPTIONAL" :> <<"O", "P", "T", "I", "O", "N", "A", "L">> @@
    "ORDER" :> <<"O", "R", "D", "E", "R">> @@
    "REMOVE" :> <<"R", "E", "M", "O", "V", "E">> @@
    "REQUIRE" :> <<"R", "E", "Q", "U", "I", "R", "E">> @@
    "RETURN" :> <<"R", "E", "T", "U", "R", "N">> @@
    "SCALAR" :> <<"S", "C", "A", "L", "A", "R">> @@
    "SET" :> <<"S", "E", "T">> @@
    "SKIP" :> <<"S", "K", "I", "P">> @@
    "STARTS" :> <<"S", "T", "A", "R", "T", "S">> @@
    "THEN" :> <<"T", "H", "E", "N">> @@
    "UNION" :> <<"U", "N", "I", "O", "N">> @@
    "UNIQUE" :> <<"U", "N", "I", "Q", "U", "E">> @@
    "UNWIND" :> <<"U", "N", "W", "I", "N", "D">> @@
    "WHEN" :> <<"W", "H", "E", "N">> @@
    "WHERE" :> <<"W", "H", "E", "R", "E">> @@
    "WITH" :> <<"W", "I", "T", "H">>

ZeroPos == [Line |-> 0, Column |-> 0, Offset |-> 0]

(* &reader{r: bufio.NewReader(r)}: src is the text, at the index of the    *)
(* rune the underlying reader delivers next.                               *)
NewReader(src) ==
    [src |-> src, at |-> 1, i |-> 0, n |-> 0, pos |-> ZeroPos,
     buf |-> [k \in 0..2 |-> [ch |-> eof, pos |-> ZeroPos]],
     panicked |-> FALSE]

(* (r.i - n + len(r.buf)) % len(r.buf): the remainder of Go truncates      *)
(* towards zero, so it is negative or zero for a negative dividend.        *)
Slot(i, n) ==
    IF i - n + 3 >= 0 THEN (i - n + 3) % 3 ELSE 0 - ((n - i - 3) % 3)

(* The functions of the scanner and of the parser call each other through *)
(* Run, defined after the last of them.                                    *)
RECURSIVE Run(_, _)

read(r) ==
    IF r.n > 0
    THEN LET b == r.buf[Slot(r.i, r.n - 1)]
         IN  [r |-> [r EXCEPT !.n = @ - 1], ch |-> b.ch, pos |-> b.pos]
    ELSE LET atEnd == r.at > Len(r.src)
             c0 == IF atEnd THEN eof ELSE r.src[r.at]
             at1 == IF atEnd THEN r.at ELSE r.at + 1
             crlf == c0 = "\r" /\ at1 <= Len(r.src) /\ r.src[at1] = "\n"
             ch == IF crlf THEN "\n" ELSE c0
             at2 == IF crlf THEN at1 + 1 ELSE at1
             pos == r.pos
             pos1 == IF ch = "\n"
                     THEN [Line |-> pos.Line + 1, Column |-> 1, Offset |-> pos.Offset + 1]
                     ELSE IF ch # eof
                     THEN [pos EXCEPT !.Column = @ + 1, !.Offset = @ + 1]
                     ELSE pos
             i1 == (r.i + 1) % 3
         IN  [r |-> [r EXCEPT !.at = at2, !.pos = pos1, !.i = i1,
                              !.buf[i1] = [ch |-> ch, pos |-> pos]],
              ch |-> ch, pos |-> pos]

(* panic("unread buffer overflow") is kept as a flag of the reader.        *)
unread(r) ==
    IF r.n >= 3 THEN [r EXCEPT !.panicked = TRUE]
    ELSE [r EXCEPT !.n = @ + 1, !.pos = r.buf[Slot(r.i, r.n + 1)].pos]

curr(r) == r.buf[Slot(r.i, r.n)]

Tok(r, tok, pos, lit) == [r |-> r, tok |-> tok, pos |-> pos, lit |-> lit]

WhitespaceLoop(r, buf) ==
    LET a == Run("read", <<r>>)
    IN  IF a.ch = eof THEN [r |-> a.r, buf |-> buf]
        ELSE IF ~isWhitespace(a.ch) THEN [r |-> Run("unread", <<a.r>>), buf |-> buf]
        ELSE Run("WhitespaceLoop", <<a.r, Append(buf, a.ch)>>)

scanWhitespace(r) ==
    LET c == Run("curr", <<r>>)
        l == Run("WhitespaceLoop", <<r, <<c.ch>>>>)
    IN  Tok(l.r, "WS", c.pos, l.buf)

errBadString == "bad string"
errBadEscape == "bad escape"

ScanStringLoop(r, ending, buf) ==
    LET a == Run("read", <<r>>)
    IN  IF a.ch = ending THEN [r |-> a.r, lit |-> buf, err |-> NoErr]
        ELSE IF a.ch = eof \/ a.ch = "\n" THEN [r |-> a.r, lit |-> buf, err |-> errBadString]
        ELSE IF a.ch = "\\"
        THEN LET b == Run("read", <<a.r>>)
             IN  IF b.ch = "n" THEN Run("ScanStringLoop", <<b.r, ending, Append(buf, "\n")>>)
                 ELSE IF b.ch \in {"\\", "\"", "'", backquote}
                 THEN Run("ScanStringLoop", <<b.r, ending, Append(buf, b.ch)>>)
                 ELSE [r |-> b.r, lit |-> <<a.ch, b.ch>>, err |-> errBadEscape]
        ELSE Run("ScanStringLoop", <<a.r, ending, Append(buf, a.ch)>>)

(* ScanString reads a quoted string: the first rune is the quote.          *)
ScanString(r) ==
    LET a == Run("read", <<r>>)
    IN  IF a.ch = eof THEN [r |-> a.r, lit |-> <<>>, err |-> errBadString]
        ELSE Run("ScanStringLoop", <<a.r, a.ch, <<>>>>)

scanString(r) ==
    LET r1 == Run("unread", <<r>>)
        pos == Run("curr", <<r1>>).pos
        s == Run("ScanString", <<r1>>)
    IN  IF s.err = errBadString THEN Tok(s.r, "BADSTRING", pos, s.lit)
        ELSE IF s.err = errBadEscape THEN Tok(s.r, "BADESCAPE", Run("curr", <<s.r>>).pos, s.lit)
        ELSE Tok(s.r, "STRING", pos, s.lit)

BareIdentLoop(r, buf) ==
    LET a == Run("read", <<r>>)
    IN  IF a.ch = eof THEN [r |-> a.r, buf |-> buf]
        ELSE IF ~isIdentChar(a.ch) THEN [r |-> Run("unread", <<a.r>>), buf |-> buf]
        ELSE Run("BareIdentLoop", <<a.r, Append(buf, a.ch)>>)

ScanBareIdent(r) == Run("BareIdentLoop", <<r, <<>>>>)

(* The loop of scanIdent: it ends with the identifier read so far, or with *)
(* the token of a quoted string met on the way.                            *)
IdentLoop(r, buf) ==
    LET a == Run("read", <<r>>)
    IN  IF a.ch = eof THEN [r |-> a.r, buf |-> buf, quoted |-> FALSE, str |-> <<>>]
        ELSE IF a.ch \in {"\"", "'", backquote}
        THEN [r |-> a.r, buf |-> buf, quoted |-> TRUE, str |-> Run("scanString", <<a.r>>)]
        ELSE IF isIdentChar(a.ch)
        THEN LET b == Run("ScanBareIdent", <<Run("unread", <<a.r>>)>>)
             IN  Run("IdentLoop", <<b.r, buf \o b.buf>>)
        ELSE [r |-> Run("unread", <<a.r>>), buf |-> buf, quoted |-> FALSE, str |-> <<>>]

scanIdent(r, lookup) ==
    LET a == Run("read", <<r>>)
        pos == a.pos
        l == Run("IdentLoop", <<Run("unread", <<a.r>>), <<>>>>)
    IN  IF l.quoted
        THEN IF l.str.tok \in {"BADSTRING", "BADESCAPE"} THEN l.str
             ELSE Tok(l.str.r, "IDENT", pos, l.str.lit)
        ELSE IF lookup /\ Lookup(l.buf) # "IDENT" THEN Tok(l.r, Lookup(l.buf), pos, l.buf)
        ELSE Tok(l.r, "IDENT", pos, l.buf)

DigitsLoop(r, buf) ==
    LET a == Run("read", <<r>>)
    IN  IF ~isDigit(a.ch) THEN [r |-> Run("unread", <<a.r>>), buf |-> buf]
        ELSE Run("DigitsLoop", <<a.r, Append(buf, a.ch)>>)

scanDigits(r) == Run("DigitsLoop", <<r, <<>>>>)

(* scanNumber is called with a digit as the current rune.                  *)
scanNumber(r) ==
    LET c == Run("curr", <<r>>)
        r1 == IF c.ch = "."
              THEN LET p == Run("read", <<r>>)
                   IN  Run("unread", <<Run("unread", <<p.r>>)>>)
              ELSE Run("unread", <<r>>)
        d == Run("scanDigits", <<r1>>)
        a == Run("read", <<d.r>>)
    IN  IF c.ch = "." /\ ~isDigit(Run("read", <<r>>).ch)
        THEN Tok(Run("unread", <<Run("read", <<r>>).r>>), "ILLEGAL", c.pos, <<".">>)
        ELSE IF a.ch = "."
        THEN LET b == Run("read", <<a.r>>)
             IN  IF isDigit(b.ch)
                 THEN LET e == Run("scanDigits", <<b.r>>)
                      IN  Tok(e.r, "NUMBER", c.pos, d.buf \o <<a.ch, b.ch>> \o e.buf)
                 ELSE Tok(Run("unread", <<b.r>>), "NUMBER", c.pos, d.buf)
        ELSE Tok(Run("unread", <<Run("unread", <<a.r>>)>>), "INTEGER", c.pos, d.buf)

RelRangeLoop(r, startPos, buf) ==
    LET a == Run("read", <<r>>)
    IN  IF a.ch = eof THEN Tok(a.r, "ILLEGAL", startPos, buf)
        ELSE IF a.ch = "]" THEN Tok(a.r, "REL_RANGE", startPos, Append(buf, a.ch))
        ELSE Run("RelRangeLoop", <<a.r, startPos, Append(buf, a.ch)>>)

scanRelRange(r, startPos) == Run("RelRangeLoop", <<r, startPos, <<"[", "*">>>>)

skipUntilNewline(r) ==
    LET a == Run("read", <<r>>)
    IN  IF a.ch = "\n" \/ a.ch = eof THEN a.r ELSE Run("skipUntilNewline", <<a.r>>)

(* skipUntilEndComment: star is TRUE after a '*' was read.                 *)
skipUntilEndComment(r, star) ==
    LET a == Run("read", <<r>>)
    IN  IF a.ch = eof THEN [r |-> a.r, err |-> "EOF"]
        ELSE IF star /\ a.ch = "/" THEN [r |-> a.r, err |-> NoErr]
        ELSE Run("skipUntilEndComment", <<a.r, a.ch = "*">>)

(* One token for ch, or a longer one when the next rune is in longer.      *)
OneOrTwo(r, pos, short, longer) ==
    LET b == Run("read", <<r>>)
    IN  IF \E e \in longer : e[1] = b.ch
        THEN LET tok == (CHOOSE e \in longer : e[1] = b.ch)[2]
             IN  Tok(b.r, tok, pos, tokens[tok])
        ELSE Tok(Run("unread", <<b.r>>), short, pos, tokens[short])

(* Scanner.Scan: the next token of the text, its position and literal.     *)
Scan(r0) ==
    LET a == Run("read", <<r0>>)
        ch0 == a.ch
        pos == a.pos
        r == a.r
    IN  IF isWhitespace(ch0) THEN Run("scanWhitespace", <<r>>)
        ELSE IF isLetter(ch0) \/ ch0 = "_" THEN Run("scanIdent", <<Run("unread", <<r>>), TRUE>>)
        ELSE IF isDigit(ch0) THEN Run("scanNumber", <<r>>)
        ELSE IF ch0 = eof THEN Tok(r, "EOF", pos, tokens["EOF"])
        ELSE IF ch0 \in {"\"", "'"} THEN scanString(r)
        ELSE IF ch0 = backquote THEN Run("scanIdent", <<Run("unread", <<r>>), FALSE>>)
        ELSE IF ch0 = "+" THEN Run("OneOrTwo", <<r, pos, "PLUS", {<<"=", "INC">>}>>)
        ELSE IF ch0 = "*" THEN Tok(r, "MUL", pos, tokens["MUL"])
        ELSE IF ch0 = "%" THEN Tok(r, "MOD", pos, tokens["MOD"])
        ELSE IF ch0 = "(" THEN Tok(r, "LPAREN", pos, tokens["LPAREN"])
        ELSE IF ch0 = ")" THEN Tok(r, "RPAREN", pos, tokens["RPAREN"])
        ELSE IF ch0 = "{" THEN Tok(r, "LBRACE", pos, tokens["LBRACE"])
        ELSE IF ch0 = "}" THEN Tok(r, "RBRACE", pos, tokens["RBRACE"])
        ELSE IF ch0 = "["
        THEN LET b == Run("read", <<r>>)
             IN  IF b.ch = "*" THEN Run("scanRelRange", <<b.r, pos>>)
                 ELSE Tok(Run("unread", <<b.r>>), "LBRACKET", pos, tokens["LBRACKET"])
        ELSE IF ch0 = "]" THEN Tok(r, "RBRACKET", pos, tokens["RBRACKET"])
        ELSE IF ch0 = "," THEN Tok(r, "COMMA", pos, tokens["COMMA"])
        ELSE IF ch0 = ";" THEN Tok(r, "SEMICOLON", pos, tokens["SEMICOLON"])
        ELSE IF ch0 = ":" THEN Tok(r, "COLON", pos, tokens["COLON"])
        ELSE IF ch0 = "-" THEN Run("OneOrTwo", <<r, pos, "SUB", {<<">", "EDGE_RIGHT">>}>>)
        ELSE IF ch0 = "=" THEN Tok(r, "EQ", pos, tokens["EQ"])
        ELSE IF ch0 = "." THEN Run("OneOrTwo", <<r, pos, "DOT", {<<".", "DOUBLEDOT">>}>>)
        ELSE IF ch0 = "|" THEN Tok(r, "BAR", pos, tokens["BAR"])
        ELSE IF ch0 = "<"
        THEN Run("OneOrTwo", <<r, pos, "LT", {<<">", "NEQ">>, <<"=", "LTE">>, <<"-", "EDGE_LEFT">>}>>)
        ELSE IF ch0 = ">" THEN Run("OneOrTwo", <<r, pos, "GT", {<<"=", "GTE">>}>>)
        ELSE IF ch0 = "/"
        THEN LET b == Run("read", <<r>>)
             IN  IF b.ch = "*"
                 THEN LET c == Run("skipUntilEndComment", <<b.r, FALSE>>)
                      IN  Tok(c.r, IF c.err # NoErr THEN "ILLEGAL" ELSE "COMMENT", pos,
                              <<"/", "*">>)
                 ELSE IF b.ch = "/" THEN Tok(Run("skipUntilNewline", <<b.r>>), "COMMENT", pos, <<"/", "/">>)
                 ELSE Tok(Run("unread", <<b.r>>), "DIV", pos, tokens["DIV"])
        ELSE Tok(r, "ILLEGAL", pos, <<ch0>>)

----------------------------------------------------------------------------
(* A caller that scans a text token by token.                              *)

MaxScans == 9

ScanTexts ==
    {<<"5">>,
     <<"1", "2", ")">>,
     <<"L", "I", "M", "I", "T", " ", "5">>,
     <<"{", "k", ":", " ", "5", "}">>,
     <<"a", " ", "1", ".", "5", " ", "b">>,
     <<"(", "a", ")", "-", "[", "*", "1", ".", ".", "3", "]", "-", ">", "(", "b", ")">>,
     <<"<", "-", "[", "r", "]", "-">>,
     <<"-", "[", "r", ":", "T", "|", "U", "]", "-", ">">>,
     <<"'", "v", "'", " ", "\"", "w", "\"">>,
     <<"a", " ", "/", "/", " ", "c", "\n", "b">>,
     <<"M", "A", "T", "C", "H", " ", "(", "a", ")", " ", "R", "E", "T", "U", "R", "N", " ", "a", ";">>,
     <<"x", " ", "<", ">", " ", "7", ";">>,
     <<"[", "*", "2">>,
     <<"n", " ", ">", "=", " ", "1", "0">>,
     <<"a", ".", "b", " ", "=", " ", "3">>,
     <<"R", "E", "T", "U", "R", "N", " ", "a", ",", " ", "b">>,
     <<"/", "*", " ", "c", " ", "*", "/", " ", "4">>,
     <<"'", "a", "\\", "n", "b", "'", " ", "'", "c">>}

(* NewScanner(strings.NewReader(text))                                     *)
NewScanner(text) == [made |-> TRUE, r |-> NewReader(text), toks |-> <<>>]

LastToken == lex.toks[Len(lex.toks)]

DoScan ==
    /\ lex.made
    /\ Len(lex.toks) < MaxScans
    /\ Len(lex.toks) > 0 => LastToken.tok # "EOF"
    /\ LET t == Run("Scan", <<lex.r>>)
       IN  lex' = [lex EXCEPT !.r = t.r,
                              !.toks = Append(@, [tok |-> t.tok, pos |-> t.pos, lit |-> t.lit])]
    /\ UNCHANGED <<storeVars, callVars, aliasVars, concVars, dfsVars, execVars, parse, file>>

InitScan ==
    /\ New
    /\ NoCalls
    /\ NoThreads
    /\ NoTraversal
    /\ \E text \in ScanTexts : lex = NewScanner(text)
    /\ parse = NoParse
    /\ file = NoFile

NextScan == DoScan

SpecScan == InitScan /\ [][NextScan]_vars

----------------------------------------------------------------------------
(* The parser of query texts.  A parser value p is its bufScanner; every   *)
(* method returns the parser it leaves, its value and its error.           *)

(* Token.String()                                                          *)
TokenString(tok) == IF tok \in DOMAIN tokens THEN tokens[tok] ELSE <<>>

tokstr(tok, lit) == IF lit # <<>> THEN lit ELSE TokenString(tok)

(* newBufScanner: the buffer holds zero tokens.                            *)
newBufScanner(text) ==
    [s |-> NewReader(text), i |-> 0, n |-> 0,
     buf |-> [k \in 0..2 |-> [tok |-> "ILLEGAL", pos |-> ZeroPos, lit |-> <<>>]]]

(* bufScanner.curr: with more tokens pushed back than i + 3 the index can  *)
(* be negative, and indexing the array with it panics; the panic is the    *)
(* token Panic. The parser never pushes back more than two tokens.         *)
BufCurr(p) ==
    IF Slot(p.i, p.n) < 0
    THEN [tok |-> Panic, pos |-> ZeroPos, lit |-> <<>>]
    ELSE p.buf[Slot(p.i, p.n)]

(* bufScanner.Scan                                                         *)
BufScan(p) ==
    IF p.n > 0
    THEN LET p1 == [p EXCEPT !.n = @ - 1]
         IN  [p |-> p1, t |-> BufCurr(p1)]
    ELSE LET i1 == (p.i + 1) % 3
             t == Run("Scan", <<p.s>>)
             p1 == [p EXCEPT !.i = i1, !.s = t.r,
                             !.buf[i1] = [tok |-> t.tok, pos |-> t.pos, lit |-> t.lit]]
         IN  [p |-> p1, t |-> BufCurr(p1)]

Unscan(p) == [p EXCEPT !.n = @ + 1]

ScanIgnoreWhitespace(p) ==
    LET a == Run("BufScan", <<p>>)
    IN  IF a.t.tok \in {"WS", "COMMENT"} THEN Run("ScanIgnoreWhitespace", <<a.p>>) ELSE a

(* Errors of the parser: nil, a *ParseError, or an error made by fmt.Errorf.             *)
NoParseErr == [kind |-> "nil", Message |-> "", Found |-> <<>>, Expected |-> <<>>, Pos |-> ZeroPos]

newParseError(found, expected, pos) ==
    [kind |-> "ParseError", Message |-> "", Found |-> found, Expected |-> expected, Pos |-> pos]

Errorf(message) ==
    [kind |-> "error", Message |-> message, Found |-> <<>>, Expected |-> <<>>, Pos |-> ZeroPos]

NilVal == [kind |-> "nil"]

Ret(p, val, e) == [p |-> p, val |-> val, err |-> e]

(* A nil *Variable or *string of a pattern.                                *)
NilName == [isNil |-> TRUE, name |-> <<>>]

(* &EdgePattern{Direction: EdgeUndefined}                                  *)
NewEdgePattern ==
    [kind |-> "EdgePattern", Variable |-> NilName, RelTypes |-> <<>>, Properties |-> NilMap,
     Direction |-> EdgeUndefined, MinHops |-> NilInt, MaxHops |-> NilInt]

(* strings.TrimPrefix, strings.TrimSuffix, strings.Split with the          *)
(* separator "..".                                                         *)
TrimPrefix(s, prefix) ==
    IF Len(s) >= Len(prefix) /\ SubSeq(s, 1, Len(prefix)) = prefix
    THEN SubSeq(s, Len(prefix) + 1, Len(s)) ELSE s

TrimSuffix(s, suffix) ==
    IF Len(s) >= Len(suffix) /\ SubSeq(s, Len(s) - Len(suffix) + 1, Len(s)) = suffix
    THEN SubSeq(s, 1, Len(s) - Len(suffix)) ELSE s

RECURSIVE SplitDots(_)
SplitDots(s) ==
    LET at == {i \in 1..(Len(s) - 1) : s[i] = "." /\ s[i + 1] = "."}
    IN  IF at = {} THEN <<s>>
        ELSE LET i == CHOOSE i \in at : \A j \in at : i <= j
             IN  <<SubSeq(s, 1, i - 1)>> \o SplitDots(SubSeq(s, i + 2, Len(s)))

(* Parser.parseRelRange: the bounds are stored as they are written.        *)
parseRelRange(ep, lit) ==
    LET rangeStr == TrimSuffix(TrimPrefix(lit, <<"[", "*">>), <<"]">>)
        parts == SplitDots(rangeStr)
        ep1 == IF parts[1] # <<>> THEN [ep EXCEPT !.MinHops = IntOf(Atoi(parts[1]).val)] ELSE ep
    IN  IF Len(parts) > 1 /\ parts[2] # <<>>
        THEN [ep1 EXCEPT !.MaxHops = IntOf(Atoi(parts[2]).val)]
        ELSE ep1

(* parseRelRange of the parser that fills in the bounds left out: 0 for    *)
(* the lower one, -1 for the upper one.                                    *)
parseRelRangeDefaults(ep, lit) ==
    LET rangeStr == TrimSuffix(TrimPrefix(lit, <<"[", "*">>), <<"]">>)
        parts == SplitDots(rangeStr)
        ep1 == IF parts[1] # <<>> THEN [ep EXCEPT !.MinHops = IntOf(Atoi(parts[1]).val)]
               ELSE [ep EXCEPT !.MinHops = IntOf(0)]
    IN  IF Len(parts) > 1 /\ parts[2] # <<>>
        THEN [ep1 EXCEPT !.MaxHops = IntOf(Atoi(parts[2]).val)]
        ELSE [ep1 EXCEPT !.MaxHops = IntOf(-1)]

(* Parser.ScanExpression                                                   *)
ScanExpression(p) ==
    LET a == Run("ScanIgnoreWhitespace", <<p>>)
    IN  IF a.t.tok = "IDENT" THEN Ret(a.p, VariableExpr(a.t.lit), NoParseErr)
        ELSE IF a.t.tok = "STRING" THEN Ret(a.p, StrLiteral(a.t.lit), NoParseErr)
        ELSE IF a.t.tok = "INTEGER" THEN Ret(a.p, IntegerLiteral(Atoi(a.t.lit).val), NoParseErr)
        ELSE Ret(a.p, NilVal,
                 newParseError(tokstr(a.t.tok, a.t.lit), <<"identifier", "literal">>, a.t.pos))

PropertiesLoop(p, props) ==
    LET k == Run("ScanIgnoreWhitespace", <<p>>)
        c == Run("ScanIgnoreWhitespace", <<k.p>>)
        e == Run("ScanExpression", <<c.p>>)
        d == Run("ScanIgnoreWhitespace", <<e.p>>)
    IN  IF k.t.tok # "IDENT"
        THEN Ret(k.p, NilVal, newParseError(tokstr(k.t.tok, k.t.lit), <<"identifier">>, k.t.pos))
        ELSE IF c.t.tok # "COLON"
        THEN Ret(c.p, NilVal, newParseError(tokstr(c.t.tok, c.t.lit), <<":">>, c.t.pos))
        ELSE IF e.err.kind # "nil" THEN Ret(e.p, NilVal, e.err)
        ELSE IF d.t.tok = "COMMA" THEN Run("PropertiesLoop", <<d.p, MapPut(props, k.t.lit, e.val)>>)
        ELSE Ret(Unscan(d.p), MapPut(props, k.t.lit, e.val), NoParseErr)

(* Parser.ScanProperties: val is the map, or nil when no "{" follows.      *)
ScanProperties(p) ==
    LET a == Run("ScanIgnoreWhitespace", <<p>>)
        l == Run("PropertiesLoop", <<a.p, <<>>>>)
        c == Run("ScanIgnoreWhitespace", <<l.p>>)
    IN  IF a.t.tok # "LBRACE" THEN Ret(Unscan(a.p), NilMap, NoParseErr)
        ELSE IF l.err.kind # "nil" THEN Ret(l.p, NilMap, l.err)
        ELSE IF c.t.tok # "RBRACE"
        THEN Ret(c.p, NilMap, newParseError(tokstr(c.t.tok, c.t.lit), <<"}">>, c.t.pos))
        ELSE Ret(c.p, GoMap(l.val), NoParseErr)

(* The label loop of ScanNodePattern.                                      *)
LabelsLoop(p, labels) ==
    LET a == Run("ScanIgnoreWhitespace", <<p>>)
        b == Run("ScanIgnoreWhitespace", <<a.p>>)
    IN  IF a.t.tok # "COLON" THEN Ret(Unscan(a.p), labels, NoParseErr)
        ELSE IF b.t.tok = "IDENT" THEN Run("LabelsLoop", <<b.p, Append(labels, b.t.lit)>>)
        ELSE Ret(b.p, labels,
                 newParseError(tokstr(a.t.tok, b.t.lit), <<"Label Identifier">>, b.t.pos))

(* Parser.ScanNodePattern: val is the node, or nil when no node follows.   *)
ScanNodePattern(p) ==
    LET a == Run("ScanIgnoreWhitespace", <<p>>)
        b == Run("ScanIgnoreWhitespace", <<a.p>>)
        hasVar == b.t.tok = "IDENT"
        l == Run("LabelsLoop", <<IF hasVar THEN b.p ELSE Unscan(b.p), <<>>>>)
        props == Run("ScanProperties", <<l.p>>)
        c == Run("ScanIgnoreWhitespace", <<props.p>>)
        validNode == hasVar \/ Len(l.val) > 0 \/ ~props.val.isNil
        node == NodePattern(IF hasVar THEN VarOf(b.t.lit) ELSE NilName, l.val, props.val)
    IN  IF a.t.tok # "LPAREN" THEN Ret(Unscan(a.p), NilVal, NoParseErr)
        ELSE IF l.err.kind # "nil" THEN Ret(l.p, NilVal, l.err)
        ELSE IF props.err.kind # "nil" THEN Ret(props.p, NilVal, props.err)
        ELSE IF c.t.tok = "RPAREN" THEN Ret(c.p, node, NoParseErr)
        ELSE IF validNode
        THEN Ret(c.p, NilVal, newParseError(tokstr(c.t.tok, c.t.lit), <<")">>, c.t.pos))
        ELSE Ret(Unscan(Unscan(c.p)), NilVal, NoParseErr)

(* Parser.parseEdgeDetails: val is the edge pattern it fills.              *)
parseEdgeDetails(p, ep) ==
    LET a == Run("ScanIgnoreWhitespace", <<p>>)
        tok == a.t.tok
        b == Run("ScanIgnoreWhitespace", <<a.p>>)
        props == Run("ScanProperties", <<Unscan(a.p)>>)
    IN  IF tok = "IDENT"
        THEN Run("parseEdgeDetails", <<a.p, [ep EXCEPT !.Variable = VarOf(a.t.lit)]>>)
        ELSE IF tok = "COLON"
        THEN IF b.t.tok # "IDENT"
             THEN Ret(b.p, ep, newParseError(tokstr(b.t.tok, b.t.lit),
                                             <<"relationship type">>, b.t.pos))
             ELSE Run("parseEdgeDetails", <<b.p, [ep EXCEPT !.RelTypes = Append(@, b.t.lit)]>>)
        ELSE IF tok = "MUL" THEN Run("parseEdgeDetails", <<a.p, parseRelRange(ep, a.t.lit)>>)
        ELSE IF tok = "LBRACE"
        THEN IF props.err.kind # "nil" THEN Ret(props.p, ep, props.err)
             ELSE Run("parseEdgeDetails", <<props.p, [ep EXCEPT !.Properties = props.val]>>)
        ELSE IF tok = "RBRACKET" THEN Ret(a.p, ep, NoParseErr)
        ELSE Ret(a.p, ep, newParseError(tokstr(tok, a.t.lit),
                                        <<"identifier", "*", "}">>, a.t.pos))

(* Parser.ScanEdgePattern: val is the edge, or nil when no edge follows.   *)
ScanEdgePattern(p) ==
    LET ep == NewEdgePattern
        a == Run("ScanIgnoreWhitespace", <<p>>)
        b == Run("ScanIgnoreWhitespace", <<a.p>>)
        (* case REL_RANGE *)
        c == Run("ScanIgnoreWhitespace", <<b.p>>)
        (* case LBRACKET *)
        d == Run("parseEdgeDetails", <<Unscan(b.p), [ep EXCEPT !.Direction = EdgeRight]>>)
        e == Run("ScanIgnoreWhitespace", <<d.p>>)
        f == Run("ScanIgnoreWhitespace", <<e.p>>)
        g == Run("ScanIgnoreWhitespace", <<f.p>>)
    IN  IF a.t.tok = "SUB"
        THEN IF b.t.tok = "GT" THEN Ret(b.p, [ep EXCEPT !.Direction = EdgeRight], NoParseErr)
             ELSE IF b.t.tok = "REL_RANGE"
             THEN IF c.t.tok = "EDGE_RIGHT"
                  THEN Ret(c.p, [parseRelRange(ep, b.t.lit) EXCEPT !.Direction = EdgeRight], NoParseErr)
                  ELSE Ret(c.p, NilVal, newParseError(tokstr(c.t.tok, c.t.lit), <<"->">>, c.t.pos))
             ELSE IF b.t.tok = "LBRACKET"
             THEN IF d.err.kind # "nil" THEN Ret(d.p, NilVal, d.err)
                  ELSE IF e.t.tok # "RBRACKET"
                  THEN Ret(e.p, NilVal, newParseError(tokstr(e.t.tok, e.t.lit), <<"]">>, e.t.pos))
                  ELSE IF f.t.tok # "SUB"
                  THEN Ret(f.p, NilVal, newParseError(tokstr(f.t.tok, f.t.lit), <<"-">>, f.t.pos))
                  ELSE IF g.t.tok # "GT"
                  THEN Ret(g.p, NilVal, newParseError(tokstr(g.t.tok, g.t.lit), <<">">>, g.t.pos))
                  ELSE Ret(g.p, d.val, NoParseErr)
             ELSE Ret(b.p, NilVal, newParseError(tokstr(b.t.tok, b.t.lit), <<">", "[*">>, b.t.pos))
        ELSE IF a.t.tok = "LT" THEN Ret(a.p, ep, NoParseErr)
        ELSE Ret(Unscan(a.p), NilVal, NoParseErr)

(* The edge and node loop of ScanPatternElements.                          *)
ElementsLoop(p, elements) ==
    LET edge == Run("ScanEdgePattern", <<p>>)
        node == Run("ScanNodePattern", <<edge.p>>)
    IN  IF edge.err.kind # "nil" THEN Ret(edge.p, <<>>, edge.err)
        ELSE IF edge.val.kind = "nil" THEN Ret(edge.p, elements, NoParseErr)
        ELSE IF node.err.kind # "nil" THEN Ret(node.p, <<>>, node.err)
        ELSE IF node.val.kind = "nil"
        THEN Ret(node.p, <<>>, Errorf("expected node after relationship"))
        ELSE Run("ElementsLoop", <<node.p, elements \o <<edge.val, node.val>>>>)

(* Parser.ScanPatternElements                                              *)
ScanPatternElements(p) ==
    LET node == Run("ScanNodePattern", <<p>>)
    IN  IF node.err.kind # "nil" \/ node.val.kind = "nil"
        THEN Ret(node.p, <<>>, Errorf("expected node pattern"))
        ELSE Run("ElementsLoop", <<node.p, <<node.val>>>>)

(* The first parser of part_006 (lines 411 to 927, package cypher) differs *)
(* from the parser of parser.go in ParseQuery, ScanPatternElements and     *)
(* ScanEdgePattern; its definitions carry the package's name.  Its         *)
(* EdgePattern has the field Labels.                                       *)
AstPkg == "ast"
CypherPkg == "cypher"

(* A call that does not return.                                            *)
NeverReturns ==
    [kind |-> "never returns", Message |-> "", Found |-> <<>>, Expected |-> <<>>, Pos |-> ZeroPos]

(* &EdgePattern{Direction: EdgeUndefined}                                  *)
NewEdgePatternCypher ==
    [kind |-> "EdgePattern", Variable |-> NilName, Labels |-> <<>>, Properties |-> NilMap,
     Direction |-> EdgeUndefined, MinHops |-> NilInt, MaxHops |-> NilInt]

(* The loop of ScanEdgePattern over what is written between the brackets,  *)
(* up to the closing bracket: val is the edge pattern it fills.  In the    *)
(* default arm a token that opens no property map is pushed back by the    *)
(* arm and by ScanProperties and read again by the next round, for ever.   *)
BracketLoopCypher(p, ep) ==
    LET a == Run("ScanIgnoreWhitespace", <<p>>)
        tok == a.t.tok
        b == Run("ScanIgnoreWhitespace", <<a.p>>)
        c == Run("ScanIgnoreWhitespace", <<b.p>>)
        props == Run("ScanProperties", <<Unscan(a.p)>>)
        ep0 == [ep EXCEPT !.MinHops = IntOf(0)]
    IN  IF tok = "MUL"
        THEN IF b.t.tok = "DOUBLEDOT"
             THEN Run("BracketLoopCypher",
                      <<c.p, IF c.t.tok = "INTEGER"
                             THEN [ep0 EXCEPT !.MaxHops = IntOf(Atoi(c.t.lit).val)]
                             ELSE ep0>>)
             ELSE Run("BracketLoopCypher", <<Unscan(b.p), ep0>>)
        ELSE IF tok = "RBRACKET" THEN Ret(a.p, ep, NoParseErr)
        ELSE IF tok = "IDENT"
        THEN Run("BracketLoopCypher", <<a.p, [ep EXCEPT !.Variable = VarOf(a.t.lit)]>>)
        ELSE IF tok = "COLON"
        THEN IF b.t.tok = "IDENT"
             THEN Run("BracketLoopCypher", <<b.p, [ep EXCEPT !.Labels = Append(@, b.t.lit)]>>)
             ELSE Ret(b.p, NilVal, newParseError(tokstr(b.t.tok, b.t.lit), <<"label">>, a.t.pos))
        ELSE IF props.err.kind # "nil" THEN Ret(props.p, NilVal, props.err)
        ELSE IF props.val.isNil THEN Ret(props.p, NilVal, NeverReturns)
        ELSE Run("BracketLoopCypher", <<props.p, [ep EXCEPT !.Properties = props.val]>>)

(* Parser.ScanEdgePattern of package cypher: val is the edge, or nil when  *)
(* no edge follows.                                                        *)
ScanEdgePatternCypher(p) ==
    LET a == Run("ScanIgnoreWhitespace", <<p>>)
        b == Run("ScanIgnoreWhitespace", <<a.p>>)
        ep == [NewEdgePatternCypher EXCEPT
                  !.Direction = IF a.t.tok = "LT" THEN EdgeLeft
                                ELSE IF b.t.tok = "GT" THEN EdgeRight
                                ELSE EdgeUndefined]
        c == Run("ScanIgnoreWhitespace",
                 <<IF a.t.tok = "SUB" /\ b.t.tok # "GT" THEN Unscan(b.p) ELSE b.p>>)
        l == Run("BracketLoopCypher", <<c.p, ep>>)
        (* endEdge *)
        d == Run("ScanIgnoreWhitespace", <<l.p>>)
        e == Run("ScanIgnoreWhitespace", <<d.p>>)
    IN  IF a.t.tok = "LT" /\ b.t.tok # "SUB"
        THEN Ret(Unscan(b.p), NilVal, newParseError(<<>>, <<"-">>, ZeroPos))
        ELSE IF a.t.tok \notin {"SUB", "LT"} THEN Ret(Unscan(a.p), NilVal, NoParseErr)
        ELSE IF c.t.tok # "LBRACKET" THEN Ret(Unscan(c.p), ep, NoParseErr)
        ELSE IF l.err.kind # "nil" THEN Ret(l.p, NilVal, l.err)
        ELSE IF d.t.tok = "SUB" /\ e.t.tok = "GT" /\ l.val.Direction = EdgeUndefined
        THEN Ret(e.p, [l.val EXCEPT !.Direction = EdgeRight], NoParseErr)
        ELSE IF d.t.tok = "LT" /\ e.t.tok = "SUB" /\ l.val.Direction = EdgeUndefined
        THEN Ret(e.p, [l.val EXCEPT !.Direction = EdgeLeft], NoParseErr)
        ELSE Ret(Unscan(Unscan(e.p)), l.val, NoParseErr)

(* The first loop of ScanPatternElements of package cypher: val is the     *)
(* first node and the number of parentheses opened before it.              *)
ParensLoopCypher(p, numParens) ==
    LET node == Run("ScanNodePattern", <<p>>)
        a == Run("ScanIgnoreWhitespace", <<node.p>>)
    IN  IF node.err.kind # "nil" THEN Ret(node.p, NilVal, node.err)
        ELSE IF node.val.kind # "nil"
        THEN Ret(node.p, [node |-> node.val, numParens |-> numParens], NoParseErr)
        ELSE IF a.t.tok = "LPAREN" THEN Run("ParensLoopCypher", <<a.p, numParens + 1>>)
        ELSE Ret(a.p, NilVal, newParseError(tokstr(a.t.tok, a.t.lit), <<"(">>, a.t.pos))

(* The edge and node loop of ScanPatternElements of package cypher: it     *)
(* ends when no edge follows, and also when no node follows an edge, the   *)
(* edge being the last element then.                                       *)
ElementsLoopCypher(p, pe) ==
    LET edge == Run("ScanEdgePatternCypher", <<p>>)
        node == Run("ScanNodePattern", <<edge.p>>)
    IN  IF edge.err.kind # "nil" THEN Ret(edge.p, <<>>, edge.err)
        ELSE IF edge.val.kind = "nil" THEN Ret(edge.p, pe, NoParseErr)
        ELSE IF node.err.kind # "nil" THEN Ret(node.p, <<>>, node.err)
        ELSE IF node.val.kind = "nil" THEN Ret(node.p, Append(pe, edge.val), NoParseErr)
        ELSE Run("ElementsLoopCypher", <<node.p, pe \o <<edge.val, node.val>>>>)

(* The last loop of ScanPatternElements of package cypher: a closing       *)
(* parenthesis for every one opened.                                       *)
CloseParensCypher(p, numParens, pe) ==
    LET a == Run("ScanIgnoreWhitespace", <<p>>)
    IN  IF numParens = 0 THEN Ret(p, pe, NoParseErr)
        ELSE IF a.t.tok # "RPAREN"
        THEN Ret(a.p, <<>>, newParseError(tokstr(a.t.tok, a.t.lit), <<")">>, a.t.pos))
        ELSE Run("CloseParensCypher", <<a.p, numParens - 1, pe>>)

(* Parser.ScanPatternElements of package cypher                            *)
ScanPatternElementsCypher(p) ==
    LET first == Run("ParensLoopCypher", <<p, 0>>)
        l == Run("ElementsLoopCypher", <<first.p, <<first.val.node>>>>)
    IN  IF first.err.kind # "nil" THEN Ret(first.p, <<>>, first.err)
        ELSE IF l.err.kind # "nil" THEN Ret(l.p, <<>>, l.err)
        ELSE Run("CloseParensCypher", <<l.p, first.val.numParens, l.val>>)

(* Parser.ScanMatchPattern                                                 *)
ScanMatchPattern(p) ==
    LET a == Run("ScanIgnoreWhitespace", <<p>>)
        b == Run("ScanIgnoreWhitespace", <<a.p>>)
        named == a.t.tok = "IDENT"
        elems == Run("ScanPatternElements", <<IF named THEN b.p ELSE Unscan(a.p)>>)
    IN  IF named /\ b.t.tok # "EQ"
        THEN Ret(b.p, NilVal, newParseError(tokstr(b.t.tok, b.t.lit), <<"=">>, b.t.pos))
        ELSE IF elems.err.kind # "nil" THEN Ret(elems.p, NilVal, elems.err)
        ELSE Ret(elems.p,
                 [kind |-> "MatchPattern",
                  Variable |-> IF named THEN VarOf(a.t.lit) ELSE NilName,
                  Elements |-> elems.val],
                 NoParseErr)

(* The pattern loop of ScanReadingClause.                                  *)
PatternsLoop(p, patterns) ==
    LET mp == Run("ScanMatchPattern", <<p>>)
        a == Run("ScanIgnoreWhitespace", <<mp.p>>)
    IN  IF mp.err.kind # "nil" THEN Ret(mp.p, <<>>, mp.err)
        ELSE IF a.t.tok = "COMMA" THEN Run("PatternsLoop", <<a.p, Append(patterns, mp.val)>>)
        ELSE Ret(Unscan(a.p), Append(patterns, mp.val), NoParseErr)

(* Parser.ScanReadingClause                                                *)
ScanReadingClause(p) ==
    LET a == Run("ScanIgnoreWhitespace", <<p>>)
        optional == a.t.tok = "OPTIONAL"
        b == Run("ScanIgnoreWhitespace", <<IF optional THEN a.p ELSE Unscan(a.p)>>)
        l == Run("PatternsLoop", <<b.p, <<>>>>)
        c == Run("ScanIgnoreWhitespace", <<l.p>>)
        w == Run("ScanExpression", <<c.p>>)
    IN  IF b.t.tok # "MATCH"
        THEN Ret(b.p, NilVal, newParseError(tokstr(b.t.tok, b.t.lit), <<"MATCH">>, b.t.pos))
        ELSE IF l.err.kind # "nil" THEN Ret(l.p, NilVal, l.err)
        ELSE IF c.t.tok = "WHERE"
        THEN IF w.err.kind # "nil" THEN Ret(w.p, NilVal, w.err)
             ELSE Ret(w.p, [kind |-> "ReadingClause", OptionalMatch |-> optional,
                            Pattern |-> l.val, Where |-> ExprOf(w.val)], NoParseErr)
        ELSE Ret(Unscan(c.p), [kind |-> "ReadingClause", OptionalMatch |-> optional,
                               Pattern |-> l.val, Where |-> NilExpr], NoParseErr)

(* The reading-clause loop of ParseSingleQuery.                            *)
ReadingLoop(p, reading) ==
    LET a == Run("ScanIgnoreWhitespace", <<p>>)
        rc == Run("ScanReadingClause", <<Unscan(a.p)>>)
    IN  IF a.t.tok \notin {"MATCH", "OPTIONAL"} THEN Ret(Unscan(a.p), reading, NoParseErr)
        ELSE IF rc.err.kind # "nil" THEN Ret(rc.p, <<>>, rc.err)
        ELSE Run("ReadingLoop", <<rc.p, Append(reading, rc.val)>>)

(* The return-item loop of ParseSingleQuery.                               *)
ReturnItemsLoop(p, items) ==
    LET e == Run("ScanExpression", <<p>>)
        a == Run("ScanIgnoreWhitespace", <<e.p>>)
    IN  IF e.err.kind # "nil" THEN Ret(e.p, <<>>, e.err)
        ELSE IF a.t.tok = "COMMA" THEN Run("ReturnItemsLoop", <<a.p, Append(items, e.val)>>)
        ELSE Ret(Unscan(a.p), Append(items, e.val), NoParseErr)

(* The sort-item loop of ParseSingleQuery.                                 *)
OrderLoop(p, order) ==
    LET e == Run("ScanExpression", <<p>>)
        d == Run("ScanIgnoreWhitespace", <<e.p>>)
        dir == IF d.t.tok \in {"DESC", "DESCENDING"} THEN Descending ELSE Ascending
        p1 == IF d.t.tok \in {"DESC", "DESCENDING", "ASC", "ASCENDING"} THEN d.p ELSE Unscan(d.p)
        a == Run("ScanIgnoreWhitespace", <<p1>>)
        order1 == Append(order, [Dir |-> dir, Item |-> e.val])
    IN  IF e.err.kind # "nil" THEN Ret(e.p, <<>>, e.err)
        ELSE IF a.t.tok = "COMMA" THEN Run("OrderLoop", <<a.p, order1>>)
        ELSE Ret(Unscan(a.p), order1, NoParseErr)

(* ParseSingleQuery from the ORDER BY clause on: val is the query sq with  *)
(* the clauses found.                                                      *)
ParseTail(p, sq) ==
    LET o == Run("ScanIgnoreWhitespace", <<p>>)
        by == Run("ScanIgnoreWhitespace", <<o.p>>)
        ol == Run("OrderLoop", <<by.p, <<>>>>)
        ordered == o.t.tok = "ORDER"
        p1 == IF ordered THEN ol.p ELSE Unscan(o.p)
        sq1 == IF ordered THEN [sq EXCEPT !.Order = ol.val] ELSE sq
        s == Run("ScanIgnoreWhitespace", <<p1>>)
        se == Run("ScanExpression", <<s.p>>)
        skipped == s.t.tok = "SKIP"
        p2 == IF skipped THEN se.p ELSE Unscan(s.p)
        sq2 == IF skipped THEN [sq1 EXCEPT !.Skip = ExprOf(se.val)] ELSE sq1
        l == Run("ScanIgnoreWhitespace", <<p2>>)
        le == Run("ScanExpression", <<l.p>>)
    IN  IF ordered /\ by.t.tok # "BY"
        THEN Ret(by.p, NilVal, newParseError(tokstr(by.t.tok, by.t.lit), <<"BY">>, by.t.pos))
        ELSE IF ordered /\ ol.err.kind # "nil" THEN Ret(ol.p, NilVal, ol.err)
        ELSE IF skipped /\ se.err.kind # "nil" THEN Ret(se.p, NilVal, se.err)
        ELSE IF l.t.tok # "LIMIT" THEN Ret(Unscan(l.p), sq2, NoParseErr)
        ELSE IF le.err.kind # "nil" THEN Ret(le.p, NilVal, le.err)
        ELSE Ret(le.p, [sq2 EXCEPT !.Limit = ExprOf(le.val)], NoParseErr)

(* Parser.ParseSingleQuery                                                 *)
ParseSingleQuery(p) ==
    LET rl == Run("ReadingLoop", <<p, <<>>>>)
        r == Run("ScanIgnoreWhitespace", <<rl.p>>)
        d == Run("ScanIgnoreWhitespace", <<r.p>>)
        distinct == d.t.tok = "DISTINCT"
        items == Run("ReturnItemsLoop", <<IF distinct THEN d.p ELSE Unscan(d.p), <<>>>>)
        sq == [kind |-> "SingleQuery", Reading |-> rl.val, Distinct |-> distinct,
               ReturnItems |-> items.val, Order |-> <<>>, Skip |-> NilExpr, Limit |-> NilExpr]
    IN  IF rl.err.kind # "nil" THEN Ret(rl.p, NilVal, rl.err)
        ELSE IF r.t.tok # "RETURN"
        THEN Ret(r.p, NilVal, newParseError(tokstr(r.t.tok, r.t.lit), <<"RETURN">>, r.t.pos))
        ELSE IF items.err.kind # "nil" THEN Ret(items.p, NilVal, items.err)
        ELSE Run("ParseTail", <<items.p, sq>>)

(* Parser.ParseQuery: at the end of the text the query and the error are   *)
(* both nil.                                                               *)
ParseQuery(p) ==
    LET a == Run("ScanIgnoreWhitespace", <<p>>)
    IN  IF a.t.tok = "EOF" THEN Ret(a.p, NilVal, NoParseErr)
        ELSE IF a.t.tok = "SEMICOLON" THEN Run("ParseQuery", <<a.p>>)
        ELSE Run("ParseSingleQuery", <<Unscan(a.p)>>)

(* Parser.ParseQuery of package cypher: the loop goes on after a query,    *)
(* and the query returned is the last one parsed (root).                   *)
ParseQueryCypher(p, root) ==
    LET a == Run("ScanIgnoreWhitespace", <<p>>)
        sq == Run("ParseSingleQuery", <<Unscan(a.p)>>)
    IN  IF a.t.tok = "EOF" THEN Ret(a.p, root, NoParseErr)
        ELSE IF a.t.tok = "SEMICOLON" THEN Run("ParseQueryCypher", <<a.p, root>>)
        ELSE IF sq.err.kind # "nil" THEN Ret(sq.p, NilVal, sq.err)
        ELSE Run("ParseQueryCypher", <<sq.p, sq.val>>)

(* A call of one of the scanner's or the parser's functions: Run(f, args)  *)
(* is the function named f applied to args.  A call of the method          *)
(* ScanPatternElements runs the one of the parser's package.               *)
Run(f, args) ==
    CASE f = "read" -> read(args[1])
      [] f = "unread" -> unread(args[1])
      [] f = "curr" -> curr(args[1])
      [] f = "WhitespaceLoop" -> WhitespaceLoop(args[1], args[2])
      [] f = "scanWhitespace" -> scanWhitespace(args[1])
      [] f = "ScanStringLoop" -> ScanStringLoop(args[1], args[2], args[3])
      [] f = "ScanString" -> ScanString(args[1])
      [] f = "scanString" -> scanString(args[1])
      [] f = "BareIdentLoop" -> BareIdentLoop(args[1], args[2])
      [] f = "ScanBareIdent" -> ScanBareIdent(args[1])
      [] f = "IdentLoop" -> IdentLoop(args[1], args[2])
      [] f = "scanIdent" -> scanIdent(args[1], args[2])
      [] f = "DigitsLoop" -> DigitsLoop(args[1], args[2])
      [] f = "scanDigits" -> scanDigits(args[1])
      [] f = "scanNumber" -> scanNumber(args[1])
      [] f = "RelRangeLoop" -> RelRangeLoop(args[1], args[2], args[3])
      [] f = "scanRelRange" -> scanRelRange(args[1], args[2])
      [] f = "skipUntilNewline" -> skipUntilNewline(args[1])
      [] f = "skipUntilEndComment" -> skipUntilEndComment(args[1], args[2])
      [] f = "OneOrTwo" -> OneOrTwo(args[1], args[2], args[3], args[4])
      [] f = "Scan" -> Scan(args[1])
      [] f = "BufScan" -> BufScan(args[1])
      [] f = "ScanIgnoreWhitespace" -> ScanIgnoreWhitespace(args[1])
      [] f = "ScanExpression" -> ScanExpression(args[1])
      [] f = "PropertiesLoop" -> PropertiesLoop(args[1], args[2])
      [] f = "ScanProperties" -> ScanProperties(args[1])
      [] f = "LabelsLoop" -> LabelsLoop(args[1], args[2])
      [] f = "ScanNodePattern" -> ScanNodePattern(args[1])
      [] f = "parseEdgeDetails" -> parseEdgeDetails(args[1], args[2])
      [] f = "ScanEdgePattern" -> ScanEdgePattern(args[1])
      [] f = "ElementsLoop" -> ElementsLoop(args[1], args[2])
      [] f = "ScanPatternElements" ->
             IF args[1].pkg = CypherPkg THEN ScanPatternElementsCypher(args[1])
             ELSE ScanPatternElements(args[1])
      [] f = "BracketLoopCypher" -> BracketLoopCypher(args[1], args[2])
      [] f = "ScanEdgePatternCypher" -> ScanEdgePatternCypher(args[1])
      [] f = "ParensLoopCypher" -> ParensLoopCypher(args[1], args[2])
      [] f = "ElementsLoopCypher" -> ElementsLoopCypher(args[1], args[2])
      [] f = "CloseParensCypher" -> CloseParensCypher(args[1], args[2], args[3])
      [] f = "ParseQueryCypher" -> ParseQueryCypher(args[1], args[2])
      [] f = "ScanMatchPattern" -> ScanMatchPattern(args[1])
      [] f = "PatternsLoop" -> PatternsLoop(args[1], args[2])
      [] f = "ScanReadingClause" -> ScanReadingClause(args[1])
      [] f = "ReadingLoop" -> ReadingLoop(args[1], args[2])
      [] f = "ReturnItemsLoop" -> ReturnItemsLoop(args[1], args[2])
      [] f = "OrderLoop" -> OrderLoop(args[1], args[2])
      [] f = "ParseTail" -> ParseTail(args[1], args[2])
      [] f = "ParseSingleQuery" -> ParseSingleQuery(args[1])
      [] f = "ParseQuery" -> ParseQuery(args[1])

----------------------------------------------------------------------------
(* A caller that parses one query text.  The texts are MATCH, a node       *)
(* pattern, an edge pattern with its end node or nothing, RETURN a, b and  *)
(* a tail, and some texts of other shapes.                                 *)

NodeTexts ==
    {<<>>,
     <<"(", "a", ")">>,
     <<"(", "a", " ", "{", "k", ":", " ", "'", "v", "'", "}", ")">>,
     <<"(", "a", ":", "P", ")">>,
     <<"(", "a", " ", "{", "k", ":", " ", "5", "}", ")">>,
     <<"(", ")">>}

EdgeTexts ==
    {<<>>,
     <<"-", "[", "*", "1", ".", ".", "3", "]", "-", ">", "(", "b", ")">>,
     <<"-", "[", "r", "]", "-", ">", "(", "b", ")">>,
     <<"-", "[", "r", ":", "T", "|", "U", " ", "{", "k", ":", " ", "'", "v", "'", "}", "]", "-", ">", "(", "b", ")">>,
     <<"<", "-", "[", "r", "]", "-", "(", "b", ")">>,
     <<"<", "-", "[", "*", "1", ".", ".", "3", "]", "-", "(", "b", ")">>,
     <<"-", ">", "(", "b", ")">>,
     <<"-", "[", "*", "3", ".", ".", "1", "]", "-", ">", "(", "b", ")">>,
     <<"-", "[", "*", "]", "-", ">", "(", "b", ")">>,
     <<"-", " ", ">", "(", "b", ")">>,
     <<"<", "(", "b", ")">>,
     <<"-", "[", "*", "2", "]", "-", ">", "(", "b", ")">>,
     <<"-", "[", "*", ".", ".", "3", "]", "-", ">", "(", "b", ")">>}

TailTexts ==
    {<<>>,
     <<" ", "L", "I", "M", "I", "T", " ", "5">>,
     <<" ", "O", "R", "D", "E", "R", " ", "B", "Y", " ", "b", " ", "D", "E", "S", "C">>,
     <<" ", "S", "K", "I", "P", " ", "1", " ", "L", "I", "M", "I", "T", " ", "1">>}

OtherTexts ==
    {<<"R", "E", "T", "U", "R", "N", " ", "a", ";">>,
     <<"M", "A", "T", "C", "H", " ", "(", "a", ")", ";">>,
     <<"M", "A", "T", "C", "H", " ", "(", "a", " ", "R", "E", "T", "U", "R", "N", " ", "a", ";">>,
     <<>>,
     <<";">>,
     <<"M", "A", "T", "C", "H", " ", "(", "a", ")", " ", "R", "E", "T", "U", "R", "N", " ", "D", "I", "S", "T", "I", "N", "C", "T", " ", "a", ";">>,
     <<"O", "P", "T", "I", "O", "N", "A", "L", " ", "M", "A", "T", "C", "H", " ", "(", "a", ")", " ", "R", "E", "T", "U", "R", "N", " ", "a">>,
     <<"M", "A", "T", "C", "H", " ", "p", " ", "=", " ", "(", "a", ")", "-", "[", "*", "1", ".", ".", "2", "]", "-", ">", "(", "b", ")", ",", " ", "(", "c", ")", " ", "W", "H", "E", "R", "E", " ", "a", " ", "R", "E", "T", "U", "R", "N", " ", "a">>,
     <<"M", "A", "T", "C", "H", " ", "(", "a", ")", "-", "[", "*", "1", ".", ".", "3", "]", "-", ">", "(", "b", ")", "-", "[", "*", "]", "-", ">", "(", "c", ")", " ", "R", "E", "T", "U", "R", "N", " ", "c">>,
     <<"M", "A", "T", "C", "H", " ", "(", "a", ")", "-", "[", "*", "1", ".", ".", "3", "]", "-", ">", " ", "R", "E", "T", "U", "R", "N", " ", "a">>,
     <<"M", "A", "T", "C", "H", " ", "(", "a", ")", " ", "M", "A", "T", "C", "H", " ", "(", "b", ")", " ", "R", "E", "T", "U", "R", "N", " ", "a", ",", " ", "b">>,
     <<"M", "A", "T", "C", "H", " ", "(", "a", ")", "-", "[", "*", "1", ".", ".", "3", "]", "-", ">", "(", "b", " ", "{", "k", ":", " ", "5", "}", ")", " ", "R", "E", "T", "U", "R", "N", " ", "b">>}

(* Texts with an edge pattern that no node pattern follows, with a bare    *)
(* edge, with parentheses around the pattern, with the arrow written as    *)
(* two tokens, and with a second query.                                    *)
MoreTexts ==
    {<<"M", "A", "T", "C", "H", " ", "(", "a", ")", "-", " ", "R", "E", "T", "U", "R", "N", " ", "a", ";">>,
     <<"M", "A", "T", "C", "H", " ", "(", "a", ")", "-", "(", "b", ")", " ", "R", "E", "T", "U", "R", "N", " ", "a", ",", " ", "b", ";">>,
     <<"M", "A", "T", "C", "H", " ", "(", "(", "a", ")", ")", " ", "R", "E", "T", "U", "R", "N", " ", "a", ";">>,
     <<"M", "A", "T", "C", "H", " ", "(", "a", ")", "-", "[", "r", ":", "T", " ", "{", "k", ":", " ", "'", "v", "'", "}", "]", "-", " ", ">", "(", "b", ")", " ", "R", "E", "T", "U", "R", "N", " ", "b", ";">>,
     <<"M", "A", "T", "C", "H", " ", "(", "a", ")", "<", " ", "-", "[", " ", "*", " ", "]", "<", " ", "-", "(", "b", ")", " ", "R", "E", "T", "U", "R", "N", " ", "b", ";">>,
     <<"M", "A", "T", "C", "H", " ", "(", "a", ")", "-", "[", "r", "]", " ", "R", "E", "T", "U", "R", "N", " ", "a", ";", " ", "R", "E", "T", "U", "R", "N", " ", "a">>}

MatchText == <<"M", "A", "T", "C", "H", " ">>

ReturnText == <<" ", "R", "E", "T", "U", "R", "N", " ", "a", ",", " ", "b">>

SemicolonText == <<";">>

QueryText(n, e, tail) == MatchText \o n \o e \o ReturnText \o tail \o SemicolonText

ParseTexts ==
    {QueryText(n, e, tail) : n \in NodeTexts, e \in EdgeTexts, tail \in TailTexts}
        \cup OtherTexts \cup MoreTexts

(* NewParser: the parser, which is its bufScanner, of the package pkg.     *)
NewParser(text, pkg) ==
    LET b == newBufScanner(text)
    IN  [s |-> b.s, i |-> b.i, n |-> b.n, buf |-> b.buf, pkg |-> pkg]

(* The caller's record of a call of ParseQuery that ended with r; a call   *)
(* that does not return leaves the caller stuck.                           *)
ParseCall(pkg, r) ==
    IF r.err = NeverReturns
    THEN [done |-> FALSE, stuck |-> TRUE, text |-> parse.text, pkg |-> pkg]
    ELSE [done |-> TRUE, stuck |-> FALSE, text |-> parse.text, pkg |-> pkg,
          q |-> r.val, err |-> r.err]

(* q, err := NewParser(strings.NewReader(text)).ParseQuery()               *)
DoParseQuery ==
    /\ ~parse.done /\ ~parse.stuck
    /\ parse' = ParseCall(AstPkg, Run("ParseQuery", <<NewParser(parse.text, AstPkg)>>))
    /\ UNCHANGED <<storeVars, callVars, aliasVars, concVars, dfsVars, execVars, lex, file>>

(* q, err := ParseQuery(text) of package cypher                            *)
DoParseQueryCypher ==
    /\ ~parse.done /\ ~parse.stuck
    /\ parse' = ParseCall(CypherPkg,
                          Run("ParseQueryCypher", <<NewParser(parse.text, CypherPkg), NilVal>>))
    /\ UNCHANGED <<storeVars, callVars, aliasVars, concVars, dfsVars, execVars, lex, file>>

InitParse ==
    /\ New
    /\ NoCalls
    /\ NoThreads
    /\ NoTraversal
    /\ lex = NoLex
    /\ \E text \in ParseTexts : parse = [done |-> FALSE, stuck |-> FALSE, text |-> text]
    /\ file = NoFile

NextParse ==
    \/ DoParseQuery
    \/ DoParseQueryCypher

SpecParse == InitParse /\ [][NextParse]_vars

----------------------------------------------------------------------------
(* The parser's pushback.  lex holds the parser's bufScanner p, the        *)
(* significant tokens done that the caller holds, the latest last, and the *)
(* significant tokens want that the caller has pushed back, in the order   *)
(* in which they were first returned.                                      *)

MaxPushbackSteps == 4

PushbackChars == {"(", "a", " ", "+"}

(* Every text of up to four of the characters, and texts with a comment    *)
(* after the parenthesis.                                                  *)
PushbackTexts ==
    UNION {[1..k -> PushbackChars] : k \in 1..4}
    \cup {<<"(", "/", "*", "c", "*", "/", "+">>,
          <<"(", " ", "/", "*", "c", "*", "/", " ", "+">>}

TokenOf(t) == [tok |-> t.tok, pos |-> t.pos, lit |-> t.lit]

(* The tokens the next k calls of ScanIgnoreWhitespace return.             *)
RECURSIVE NextSignificant(_, _)
NextSignificant(p, k) ==
    IF k = 0 THEN <<>>
    ELSE LET a == Run("ScanIgnoreWhitespace", <<p>>)
         IN  <<TokenOf(a.t)>> \o NextSignificant(a.p, k - 1)

Pushback(p, done, want, steps) ==
    [made |-> TRUE, p |-> p, done |-> done, want |-> want, steps |-> steps]

(* tok, pos, lit := p.ScanIgnoreWhitespace()                               *)
DoScanIgnoreWhitespace ==
    /\ lex.made
    /\ lex.steps < MaxPushbackSteps
    /\ LET a == Run("ScanIgnoreWhitespace", <<lex.p>>)
       IN  lex' = Pushback(a.p, Append(lex.done, TokenOf(a.t)),
                           IF lex.want = <<>> THEN <<>> ELSE Tail(lex.want),
                           lex.steps + 1)
    /\ UNCHANGED <<storeVars, callVars, aliasVars, concVars, dfsVars, execVars, parse, file>>

(* p.Unscan(), on the token returned last, once or twice in a row.         *)
DoUnscan ==
    /\ lex.made
    /\ lex.steps < MaxPushbackSteps
    /\ Len(lex.done) > 0
    /\ Len(lex.want) < 2
    /\ lex' = Pushback(Unscan(lex.p), SubSeq(lex.done, 1, Len(lex.done) - 1),
                       <<lex.done[Len(lex.done)]>> \o lex.want, lex.steps + 1)
    /\ UNCHANGED <<storeVars, callVars, aliasVars, concVars, dfsVars, execVars, parse, file>>

(* node, err := p.ScanNodePattern(), at a position with nothing pushed     *)
(* back: it pushes back the one token that is no parenthesis, or the       *)
(* parenthesis and the token after it when no node follows.                *)
DoScanNodePattern ==
    /\ lex.made
    /\ lex.steps < MaxPushbackSteps
    /\ lex.want = <<>>
    /\ LET r == Run("ScanNodePattern", <<lex.p>>)
           two == NextSignificant(lex.p, 2)
       IN  lex' = Pushback(r.p, <<>>,
                           IF two[1].tok # "LPAREN" THEN <<two[1]>>
                           ELSE IF r.err.kind = "nil" /\ r.val = NilVal THEN two
                           ELSE <<>>,
                           lex.steps + 1)
    /\ UNCHANGED <<storeVars, callVars, aliasVars, concVars, dfsVars, execVars, parse, file>>

InitPushback ==
    /\ New
    /\ NoCalls
    /\ NoThreads
    /\ NoTraversal
    /\ \E text \in PushbackTexts : lex = Pushback(newBufScanner(text), <<>>, <<>>, 0)
    /\ parse = NoParse
    /\ file = NoFile

NextPushback ==
    \/ DoScanIgnoreWhitespace
    \/ DoUnscan
    \/ DoScanNodePattern

SpecPushback == InitPushback /\ [][NextPushback]_vars

----------------------------------------------------------------------------
(* An edge written without bounds, as each of the two parsers reads it,    *)
(* executed with the hop window.                                           *)

StarOnly == <<"[", "*", "]">>

(* MATCH (a {k: 'v'})-[*]->(b) RETURN a, b with the edge pattern ep.       *)
UnboundedQuery(ep) ==
    HopQuery(VarOf("a"), VarOf("b"), KIsV, EdgeRight, <<ep.MinHops, ep.MaxHops>>, NoTail)

ExecutesUnbounded ==
    /\ ~exec.done
    /\ Executes(<<"parseRelRange", UnboundedQuery(parseRelRange(NewEdgePattern, StarOnly))>>,
                ExecuteQuery(Store, UnboundedQuery(parseRelRange(NewEdgePattern, StarOnly))))

ExecutesUnboundedDefaults ==
    /\ ~exec.done
    /\ Executes(<<"parseRelRangeDefaults",
                  UnboundedQuery(parseRelRangeDefaults(NewEdgePattern, StarOnly))>>,
                ExecuteQuery(Store, UnboundedQuery(parseRelRangeDefaults(NewEdgePattern, StarOnly))))

NextUnbounded ==
    \/ ExecutesUnbounded
    \/ ExecutesUnboundedDefaults

SpecUnbounded == InitPathQuery /\ [][NextUnbounded]_vars

----------------------------------------------------------------------------
(* Snapshots: SaveToFile and LoadFromFile.  A document is the JSON value   *)
(* of a graphDTO: the array "nodes" of objects with id, labels and         *)
(* properties, and the array "edges" of objects with from, to and weight.  *)

ErrOpenFile == "failed to open file"
ErrDecode   == "failed to decode graph"

(* The JSON null and a JSON object with the given members.                 *)
JsonNull == [null |-> TRUE, members |-> <<>>]
JsonObject(kv) == [null |-> FALSE, members |-> kv]

(* json.Marshal of a *Node: a nil map is written as null.                  *)
EncodeNode(n) ==
    [id |-> n.ID, labels |-> n.Labels,
     properties |-> IF n.Properties.isNil THEN JsonNull ELSE JsonObject(n.Properties.kv)]

(* json.Unmarshal into a *Node: null leaves the map nil.                   *)
DecodeNode(j) ==
    [ID |-> j.id, Labels |-> j.labels,
     Properties |-> IF j.properties.null THEN NilMap ELSE GoMap(j.properties.members)]

EncodeEdge(e) == [from |-> e.From, to |-> e.To, weight |-> e.Weight]

DecodeEdge(j) == [From |-> j.from, To |-> j.to, Weight |-> j.weight]

Document(ns, es) == [malformed |-> FALSE, nodes |-> ns, edges |-> es]

(* A file that is not the JSON text of a graphDTO.                         *)
Malformed == [malformed |-> TRUE, nodes |-> <<>>, edges |-> <<>>]

(* The edges of dto.Edges: for _, edges := range g.out, for _, edge :=     *)
(* range edges, the outer keys in the order froms; every inner range       *)
(* statement has an order of its own, tos[from] for the inner map of from. *)
RECURSIVE SavedEdges(_, _, _)
SavedEdges(S, froms, tos) ==
    IF froms = <<>> THEN <<>>
    ELSE LET inner == S.out[Head(froms)]
             keys == IterOrder(DOMAIN inner, tos[Head(froms)])
         IN  [i \in 1..Len(keys) |-> EncodeEdge(S.edgeHeap[inner[keys[i]]])]
                 \o SavedEdges(S, Tail(froms), tos)

(* SaveToFile: the document written, with the maps ranged over in the      *)
(* orders ord1 (g.nodes), ord2 (g.out) and ord3[from] (the inner map of    *)
(* from).                                                                  *)
SaveToFile(S, ord1, ord2, ord3) ==
    LET ids == IterOrder(DOMAIN S.nodes, ord1)
    IN  Document([i \in 1..Len(ids) |-> EncodeNode(S.nodeHeap[S.nodes[ids[i]]])],
                 SavedEdges(S, IterOrder(DOMAIN S.out, ord2), ord3))

(* The node loop of LoadFromFile.                                          *)
RECURSIVE LoadNodes(_, _)
LoadNodes(S, todo) ==
    IF todo = <<>> THEN Ok(S)
    ELSE LET node == DecodeNode(Head(todo))
             p == NewNodePtr(S, node.ID)
         IN  IF node.ID = "" THEN Fail(S, ErrInvalidInput)
             ELSE LoadNodes([S EXCEPT !.nodes = MapPut(@, node.ID, p),
                                      !.nodeHeap = MapPut(@, p, node)],
                            Tail(todo))

(* The edge loop of LoadFromFile.                                          *)
RECURSIVE LoadEdges(_, _)
LoadEdges(S, todo) ==
    IF todo = <<>> THEN Ok(S)
    ELSE LET edge == DecodeEdge(Head(todo))
             p == NewEdgePtr(S, edge.From, edge.To)
             S1 == [S EXCEPT !.edgeHeap = MapPut(@, p, edge)]
         IN  IF edge.From \notin DOMAIN S.nodes THEN Fail(S, ErrInvalidInput)
             ELSE IF edge.To \notin DOMAIN S.nodes THEN Fail(S, ErrInvalidInput)
             ELSE LoadEdges(addEdgeToIndex(S1, edge.From, edge.To, p), Tail(todo))

(* LoadFromFile: the three maps are replaced by empty ones after the       *)
(* document is decoded and before its nodes and edges are looked at.       *)
LoadFromFile(S, f) ==
    IF ~f.written THEN Fail(S, ErrOpenFile)
    ELSE IF f.doc.malformed THEN Fail(S, ErrDecode)
    ELSE LET cleared == [S EXCEPT !.nodes = EmptyMap, !.out = EmptyMap, !.in = EmptyMap]
             ns == LoadNodes(cleared, f.doc.nodes)
         IN  IF ns.err # NoErr THEN ns ELSE LoadEdges(ns.S, f.doc.edges)

(* What the store holds: the node objects by id and the edge objects of    *)
(* both indices.                                                           *)
Content(S) ==
    [nodes |-> [id \in DOMAIN S.nodes |-> S.nodeHeap[S.nodes[id]]],
     out |-> [a \in DOMAIN S.out |-> [b \in DOMAIN S.out[a] |-> S.edgeHeap[S.out[a][b]]]],
     in |-> [b \in DOMAIN S.in |-> [a \in DOMAIN S.in[b] |-> S.edgeHeap[S.in[b][a]]]]]

(* The number of file operations a caller makes.                           *)
MaxFileCalls == 4

NoTrip == [active |-> FALSE, doc |-> Malformed, content |-> Content(EmptyStore)]

(* No file yet, no operation made.                                         *)
NewFile ==
    [written |-> FALSE, doc |-> Malformed, bySave |-> FALSE, content |-> Content(EmptyStore),
     op |-> "", calls |-> 0, trip |-> NoTrip]

(* Documents written by something other than SaveToFile.                   *)
NodeA == [id |-> "A", labels |-> <<>>, properties |-> JsonObject([k \in {"k"} |-> "u"])]
NodeA2 == [id |-> "A", labels |-> <<>>, properties |-> JsonObject([k \in {"k"} |-> "v"])]
NodeB == [id |-> "B", labels |-> <<>>, properties |-> JsonNull]
NodeNoId == [id |-> "", labels |-> <<>>, properties |-> JsonNull]
EdgeAB == [from |-> "A", to |-> "B", weight |-> 1]

Documents ==
    {Malformed,
     Document(<<NodeA, NodeB>>, <<EdgeAB>>),
     Document(<<NodeA, NodeNoId>>, <<>>),
     Document(<<NodeNoId, NodeB>>, <<>>),
     Document(<<NodeA, NodeA2>>, <<>>),
     Document(<<NodeA>>, <<EdgeAB>>),
     Document(<<NodeB>>, <<EdgeAB>>)}

(* A document LoadFromFile has to reject: an empty node id, a node id that *)
(* occurs twice, or an edge whose endpoint is not a node of the document.  *)
Invalid(doc) ==
    /\ ~doc.malformed
    /\ \/ \E i \in 1..Len(doc.nodes) : doc.nodes[i].id = ""
       \/ \E i, j \in 1..Len(doc.nodes) : i # j /\ doc.nodes[i].id = doc.nodes[j].id
       \/ \E i \in 1..Len(doc.edges) :
              \/ \A j \in 1..Len(doc.nodes) : doc.nodes[j].id # doc.edges[i].from
              \/ \A j \in 1..Len(doc.nodes) : doc.nodes[j].id # doc.edges[i].to

DoSaveToFile ==
    /\ file.calls < MaxFileCalls
    /\ \E ord1 \in Perms(NodeIds), ord2 \in Perms(NodeIds),
             ord3 \in [NodeIds -> Perms(NodeIds)] :
          file' = [file EXCEPT !.written = TRUE,
                               !.doc = SaveToFile(Store, ord1, ord2, ord3),
                               !.bySave = TRUE,
                               !.content = Content(Store),
                               !.op = "SaveToFile",
                               !.calls = @ + 1]
    /\ call' = Call("SaveToFile", "", "", 0, NoProps)
    /\ err' = NoErr
    /\ UNCHANGED <<storeVars, aliasVars, concVars, dfsVars, execVars, lex, parse>>

DoLoadFromFile ==
    /\ file.calls < MaxFileCalls
    /\ LET r == LoadFromFile(Store, file)
       IN  /\ call' = Call("LoadFromFile", "", "", 0, NoProps)
           /\ err' = r.err
           /\ Commit(r, {}, {})
           /\ file' = [file EXCEPT !.op = "LoadFromFile",
                                   !.calls = @ + 1,
                                   !.trip = IF file.bySave /\ DOMAIN nodes = {} /\ r.err = NoErr
                                            THEN [active |-> TRUE, doc |-> file.doc,
                                                  content |-> file.content]
                                            ELSE NoTrip]
    /\ UNCHANGED <<aliasVars, concVars, dfsVars, execVars, lex, parse>>

(* Something else writes the file.                                         *)
DoWriteFile ==
    /\ file.calls < MaxFileCalls
    /\ \E doc \in Documents :
          file' = [file EXCEPT !.written = TRUE, !.doc = doc, !.bySave = FALSE,
                               !.op = "WriteFile", !.calls = @ + 1, !.trip = NoTrip]
    /\ UNCHANGED <<storeVars, callVars, aliasVars, concVars, dfsVars, execVars, lex, parse>>

(* loaded := New(): the caller goes on with an empty store.                *)
DoNew ==
    /\ file.calls < MaxFileCalls
    /\ DOMAIN nodes # {}
    /\ call' = Call("New", "", "", 0, NoProps)
    /\ err' = NoErr
    /\ Commit(Ok(EmptyStore), {}, {})
    /\ file' = [file EXCEPT !.op = "New", !.calls = @ + 1, !.trip = NoTrip]
    /\ UNCHANGED <<aliasVars, concVars, dfsVars, execVars, lex, parse>>

(* The graphs a caller has built before it saves or loads.                 *)
FileGraphs ==
    {EmptyStore,
     AddNode(EmptyStore, "A", NilMap).S,
     AddNode(EmptyStore, "B", ConcProps).S,
     AddNode(AddNode(EmptyStore, "A", ConcProps).S, "B", NilMap).S,
     AddEdge(AddNode(EmptyStore, "A", ConcProps).S, "A", "A", 2).S,
     AddEdge(AddNode(AddNode(EmptyStore, "A", ConcProps).S, "B", NilMap).S, "A", "B", 1).S,
     AddEdge(AddEdge(AddNode(AddNode(EmptyStore, "A", ConcProps).S, "B", NilMap).S,
                     "A", "B", 1).S, "B", "A", 2).S,
     AddEdge(AddEdge(AddNode(AddNode(EmptyStore, "A", ConcProps).S, "B", NilMap).S,
                     "A", "B", 1).S, "A", "A", 2).S}

InitFile ==
    /\ \E S \in FileGraphs :
          /\ nodes = S.nodes
          /\ out = S.out
          /\ in = S.in
          /\ nodeHeap = S.nodeHeap
          /\ edgeHeap = S.edgeHeap
    /\ NoCalls
    /\ NoThreads
    /\ NoTraversal
    /\ lex = NoLex
    /\ parse = NoParse
    /\ file = NewFile

NextFile ==
    \/ DoSaveToFile
    \/ DoLoadFromFile
    \/ DoWriteFile
    \/ DoNew

SpecFile == InitFile /\ [][NextFile]_vars

----------------------------------------------------------------------------
(* Threads that race on one key: every racer calls AddNode with the same   *)
(* id and then AddEdge with the same pair, each with properties and a      *)
(* weight of its own.  The body of either method is two steps here, the    *)
(* checks and the writes; obs keeps what each call has returned.           *)

NumRacers == 3
Racers == 1..NumRacers

RaceProps(t) == GoMap([k \in PropKeys |-> t])

RacerScript ==
    <<[op |-> "AddNode", a |-> "C", b |-> ""], [op |-> "AddEdge", a |-> "A", b |-> "B"]>>

(* g.nodes[id] = &Node[T]{ID: id, Properties: props}                       *)
StoreNode(S, id, props) ==
    LET p == NewNodePtr(S, id)
    IN  [S EXCEPT !.nodes = MapPut(@, id, p),
                  !.nodeHeap = MapPut(@, p, [ID |-> id, Labels |-> <<>>, Properties |-> props])]

(* edge := &Edge{From: from, To: to, Weight: weight}; g.addEdgeToIndex     *)
StoreEdge(S, from, to, weight) ==
    LET p == NewEdgePtr(S, from, to)
        S1 == [S EXCEPT !.edgeHeap = MapPut(@, p, [From |-> from, To |-> to, Weight |-> weight])]
    IN  addEdgeToIndex(S1, from, to, p)

(* A racer makes the next call of its script.                              *)
RacerEnter(t) ==
    /\ script[t] # <<>>
    /\ Enter(t, Head(script[t]).op, Head(script[t]).a, Head(script[t]).b)
    /\ script' = [script EXCEPT ![t] = Tail(@)]

(* The checks of AddNode and AddEdge, up to the first write or the return  *)
(* of an error.                                                            *)
RacerCheck(t) ==
    /\ pc[t].at = "body"
    /\ LET c == pc[t]
           r == IF c.op = "AddNode" THEN AddNode(Store, c.a, RaceProps(t))
                ELSE AddEdge(Store, c.a, c.b, t)
       IN  pc' = IF r.err # NoErr THEN [pc EXCEPT ![t].at = "unlock", ![t].err = r.err]
                 ELSE [pc EXCEPT ![t].at = "write"]
    /\ UNCHANGED <<storeVars, callVars, aliasVars, dfsVars, execVars, textVars, mu, script,
                   obs, committed>>

(* The writes of AddNode and AddEdge, and return nil.                      *)
RacerWrite(t) ==
    /\ pc[t].at = "write"
    /\ LET c == pc[t]
       IN  Commit(Ok(IF c.op = "AddNode" THEN StoreNode(Store, c.a, RaceProps(t))
                     ELSE StoreEdge(Store, c.a, c.b, t)), {}, {})
    /\ pc' = [pc EXCEPT ![t].at = "unlock", ![t].err = NoErr]
    /\ UNCHANGED <<callVars, aliasVars, dfsVars, execVars, textVars, mu, script, obs, committed>>

(* The method returns: the deferred Unlock runs and the caller has the     *)
(* error.                                                                  *)
RacerLeave(t) ==
    /\ pc[t].at = "unlock"
    /\ mu' = [mu EXCEPT !.writer = 0]
    /\ committed' = Store
    /\ obs' = [obs EXCEPT ![t] = Append(@, [op |-> pc[t].op, err |-> pc[t].err])]
    /\ pc' = [pc EXCEPT ![t] = Idle]
    /\ UNCHANGED <<storeVars, callVars, aliasVars, dfsVars, execVars, textVars, script>>

RacerCalls == \E t \in DOMAIN pc : RacerEnter(t)
RacerChecks == \E t \in DOMAIN pc : RacerCheck(t)
RacerWrites == \E t \in DOMAIN pc : RacerWrite(t)
RacerLeaves == \E t \in DOMAIN pc : RacerLeave(t)

InitRace ==
    /\ LET S == BuildGraph({"A", "B"}, {})
       IN  /\ nodes = S.nodes
           /\ out = S.out
           /\ in = S.in
           /\ nodeHeap = S.nodeHeap
           /\ edgeHeap = S.edgeHeap
    /\ NoCalls
    /\ mu = [writer |-> 0, readers |-> {}]
    /\ pc = [t \in Racers |-> Idle]
    /\ script = [t \in Racers |-> RacerScript]
    /\ obs = [t \in Racers |-> <<>>]
    /\ committed = Store
    /\ NoTraversal
    /\ NoText

NextRace ==
    \/ RacerCalls
    \/ ThreadAcquires
    \/ RacerChecks
    \/ RacerWrites
    \/ RacerLeaves

SpecRace == InitRace /\ [][NextRace]_vars

----------------------------------------------------------------------------
(* A traversal running while another thread mutates the store.  The        *)
(* iterator takes no lock of its own: NewDFS calls g.GetNode once, and     *)
(* each Next calls g.GetOutEdges or g.GetInEdges once and then g.GetNode   *)
(* once per edge returned; each of these calls holds g.mu for reading      *)
(* from its entry to its return.  The mutating thread makes its calls as   *)
(* the threads above do.                                                   *)

Mutator == 2
WalkIds == {"A", "B", "C"}
MutatorOps == {"RemoveNode", "RemoveEdge", "AddEdge"}
MaxWalkEdges == 2
MaxMutations == 2

NoItem == [node |-> NilNode, depth |-> 0]
WalkerIdle == [at |-> "idle", item |-> NoItem, todo |-> <<>>, got |-> <<>>]

(* What the traversing thread's last call into the store returned.         *)
WalkerObs(op, a, r) ==
    [op |-> op, a |-> a, err |-> r.err,
     nodes |-> {r.S.nodeHeap[p] : p \in SeqRange(r.ret.nodes)},
     edges |-> {r.S.edgeHeap[p] : p \in SeqRange(r.ret.edges)}]

NoWalkerObs == [op |-> "", a |-> "", err |-> NoErr, nodes |-> {}, edges |-> {}]

(* Next's loop up to the first entry whose node is not visited yet: the    *)
(* entry, and the iterator with the entry's node marked visited.           *)
RECURSIVE PopUnvisited(_, _)
PopUnvisited(S, d) ==
    IF Len(d.stack) = 0 THEN [found |-> FALSE, dfs |-> d, item |-> NoItem]
    ELSE LET p == Pop(d.stack)
             id == S.nodeHeap[p.item.node].ID
             d1 == [d EXCEPT !.stack = p.rest]
         IN  IF AlreadyVisited(d1, id) THEN PopUnvisited(S, d1)
             ELSE [found |-> TRUE, dfs |-> [d1 EXCEPT !.visited = @ \cup {id}],
                   item |-> p.item]

(* getNeighbors' first call: the edges of the node, and from each edge the *)
(* id of the node at its other end.                                        *)
NeighborIds(S, direction, r) ==
    IF r.err # NoErr THEN <<>>
    ELSE [i \in 1..Len(r.ret.edges) |->
             IF direction = Incoming THEN S.edgeHeap[r.ret.edges[i]].From
             ELSE S.edgeHeap[r.ret.edges[i]].To]

(* Next's loop over the neighbours, last to first: the entries pushed.     *)
PushedEntries(S, d, item, neighbors) ==
    LET unvisited == SelectSeq(Reverse(neighbors), LAMBDA n : S.nodeHeap[n].ID \notin d.visited)
    IN  [i \in 1..Len(unvisited) |-> [node |-> unvisited[i], depth |-> item.depth + 1]]

(* NewDFS(g, startID, WithDirection(direction)).                           *)
WalkCreates ==
    /\ ~dfs.made
    /\ RLockFree(mu)
    /\ \E startID \in WalkIds, direction \in {Outgoing, Incoming} :
          LET r == NewDFS(Store, startID, direction, -1, NoFilter)
          IN  /\ dfs' = r.dfs
              /\ err' = r.err
              /\ call' = Call("NewDFS", startID, "", 0, NoProps)
              /\ obs' = [obs EXCEPT ![Walker] = WalkerObs("GetNode", startID, GetNode(Store, startID))]
    /\ yielded' = <<>>
    /\ yieldedAt' = <<>>
    /\ UNCHANGED <<storeVars, aliasVars, mu, pc, script, committed, iter, execVars, textVars>>

(* Next, from its entry to the return of the g.GetOutEdges or g.GetInEdges *)
(* call that getNeighbors makes; with every entry visited already, to its  *)
(* return nil.                                                             *)
WalkPops ==
    /\ dfs.made
    /\ pc[Walker].at = "idle"
    /\ HasNext(dfs)
    /\ LET p == PopUnvisited(Store, dfs)
       IN  /\ dfs' = p.dfs
           /\ IF ~p.found THEN UNCHANGED <<pc, obs>>
              ELSE /\ RLockFree(mu)
                   /\ \E ord \in Perms(WalkIds) :
                         LET id == nodeHeap[p.item.node].ID
                             op == IF dfs.direction = Incoming THEN "GetInEdges" ELSE "GetOutEdges"
                             r  == Read(Store, op, id, ord)
                         IN  /\ pc' = [pc EXCEPT ![Walker] =
                                          [at |-> "neighbors", item |-> p.item,
                                           todo |-> NeighborIds(Store, dfs.direction, r),
                                           got |-> <<>>]]
                             /\ obs' = [obs EXCEPT ![Walker] = WalkerObs(op, id, r)]
    /\ UNCHANGED <<storeVars, callVars, aliasVars, mu, script, committed, yielded, iter,
                   yieldedAt, execVars, textVars>>

(* One iteration of getNeighbors' loop: g.GetNode(neighborID).             *)
WalkGetsNode ==
    /\ pc[Walker].at = "neighbors"
    /\ pc[Walker].todo # <<>>
    /\ RLockFree(mu)
    /\ LET id == Head(pc[Walker].todo)
           r  == GetNode(Store, id)
       IN  /\ pc' = [pc EXCEPT ![Walker].todo = Tail(@),
                               ![Walker].got = IF r.err = NoErr
                                               THEN Append(@, r.ret.nodes[1]) ELSE @]
           /\ obs' = [obs EXCEPT ![Walker] = WalkerObs("GetNode", id, r)]
    /\ UNCHANGED <<storeVars, callVars, aliasVars, mu, script, committed, dfsVars,
                   execVars, textVars>>

(* The rest of Next: the unvisited neighbours are pushed and the popped    *)
(* entry's node is returned.                                               *)
WalkReturns ==
    /\ pc[Walker].at = "neighbors"
    /\ pc[Walker].todo = <<>>
    /\ LET c == pc[Walker]
       IN  /\ dfs' = [dfs EXCEPT !.stack = @ \o PushedEntries(Store, dfs, c.item, c.got)]
           /\ yielded' = Append(yielded, nodeHeap[c.item.node].ID)
           /\ yieldedAt' = Append(yieldedAt, c.item.depth)
    /\ pc' = [pc EXCEPT ![Walker] = WalkerIdle]
    /\ UNCHANGED <<storeVars, callVars, aliasVars, mu, script, obs, committed, iter,
                   execVars, textVars>>

(* The other thread makes the next of its calls: RemoveNode, RemoveEdge or *)
(* AddEdge, on any ids.  Its script holds one entry per call it still      *)
(* makes; which call it is, is chosen when it is made.                     *)
MutatorCalls ==
    /\ script[Mutator] # <<>>
    /\ \E op \in MutatorOps, a \in WalkIds, b \in WalkIds :
          Enter(Mutator, op, a, IF op = "RemoveNode" THEN "" ELSE b)
    /\ script' = [script EXCEPT ![Mutator] = Tail(@)]

(* The graphs the traversal starts on: MaxWalkEdges edges between          *)
(* different nodes.                                                        *)
WalkGraphs ==
    {E \in SUBSET {e \in WalkIds \X WalkIds : e[1] # e[2]} : Cardinality(E) = MaxWalkEdges}

InitWalk ==
    /\ \E E \in WalkGraphs :
          LET S == BuildGraph(WalkIds, E)
          IN  /\ nodes = S.nodes
              /\ out = S.out
              /\ in = S.in
              /\ nodeHeap = S.nodeHeap
              /\ edgeHeap = S.edgeHeap
    /\ NoCalls
    /\ mu = [writer |-> 0, readers |-> {}]
    /\ pc = <<WalkerIdle, Idle>>
    /\ script = <<<<>>, [i \in 1..MaxMutations |-> "call"]>>
    /\ obs = <<NoWalkerObs, NoObs>>
    /\ committed = Store
    /\ NoTraversal
    /\ NoText

NextWalk ==
    \/ WalkCreates
    \/ WalkPops
    \/ WalkGetsNode
    \/ WalkReturns
    \/ MutatorCalls
    \/ ThreadAcquires
    \/ ThreadRunsBody
    \/ ThreadRemovesOut
    \/ ThreadRemovesIn
    \/ ThreadLeaves

SpecWalk == InitWalk /\ [][NextWalk]_vars

----------------------------------------------------------------------------
(* Properties of the store under sequential calls (Spec).                  *)

HasEdge(from, to) == Has2(out, from, to)
WeightOf(from, to) == edgeHeap[out[from][to]].Weight
PropsOf(id) == nodeHeap[nodes[id]].Properties
Succeeded(op) == call.op = op /\ err = NoErr

(* C1: every id that is an outer or an inner key of the outgoing or of the *)
(* incoming index is in the node table; after a successful RemoveNode(x)   *)
(* no index entry names x any more.                                        *)
C1_IndexKeysAreNodes ==
    /\ \A a \in DOMAIN out : a \in DOMAIN nodes /\ DOMAIN out[a] \subseteq DOMAIN nodes
    /\ \A a \in DOMAIN in : a \in DOMAIN nodes /\ DOMAIN in[a] \subseteq DOMAIN nodes
    /\ Succeeded("RemoveNode") =>
          /\ call.a \notin DOMAIN nodes
          /\ call.a \notin DOMAIN out \cup DOMAIN in
          /\ \A b \in DOMAIN out : call.a \notin DOMAIN out[b]
          /\ \A b \in DOMAIN in : call.a \notin DOMAIN in[b]

(* RemoveNode(x) has just removed a node that had a self-loop and edges in *)
(* both directions with a node that stays, which keeps an edge of its own. *)
C1_Witness ==
    /\ Succeeded("RemoveNode")
    /\ <<call.a, call.a>> \in call.pre.incident
    /\ \E b \in DOMAIN nodes :
          /\ <<call.a, b>> \in call.pre.incident
          /\ <<b, call.a>> \in call.pre.incident
          /\ HasEdge(b, b)

(* C2: the two indices mirror each other: from->to is in the outgoing      *)
(* index exactly when it is in the incoming index, and both entries show   *)
(* the same edge with the same weight.                                     *)
C2_IndicesMirror ==
    \A from \in NodeIds, to \in NodeIds :
        /\ Has2(out, from, to) <=> Has2(in, to, from)
        /\ Has2(out, from, to) /\ Has2(in, to, from) =>
              /\ edgeHeap[out[from][to]].Weight = edgeHeap[in[to][from]].Weight
              /\ edgeHeap[out[from][to]].From = from /\ edgeHeap[in[to][from]].From = from
              /\ edgeHeap[out[from][to]].To = to /\ edgeHeap[in[to][from]].To = to

(* UpdateEdge has just changed the weight of an edge.                      *)
C2_Witness ==
    /\ Succeeded("UpdateEdge")
    /\ call.pre.weight # call.w
    /\ edgeHeap[in[call.b][call.a]].Weight = call.w

(* C3: a call that returns an error leaves the node table, both indices    *)
(* and the objects they point to as they were before the call.  (The read  *)
(* accessors assign to nothing in the store, whatever they return.)        *)
C3_FailedCallChangesNothing ==
    [][err' # NoErr => UNCHANGED storeVars]_vars

(* A call has failed on a store that holds nodes and an edge.              *)
C3_Witness ==
    /\ call.op = "AddEdge"
    /\ err = ErrNodeNotFound
    /\ call.pre.hadA /\ ~call.pre.hadB
    /\ DOMAIN out # {}

(* What GetNode(id) shows of the node it returns.                          *)
GetNodeShows(id) ==
    LET r == GetNode(Store, id)
    IN  IF r.err = NoErr THEN nodeHeap[r.ret.nodes[1]] ELSE [ID |-> "", Labels |-> <<>>, Properties |-> NilMap]

(* C7: AddNode(id, P) fails with InvalidInput on the empty id and with     *)
(* AlreadyExists on a present id, whose properties stay as they were;      *)
(* otherwise it succeeds and GetNode(id) returns a node with properties P. *)
C7_AddNodeContract ==
    call.op = "AddNode" =>
        /\ call.a = "" => err = ErrInvalidInput
        /\ call.a # "" /\ call.pre.hadA =>
              /\ err = ErrNodeExists
              /\ GetNode(Store, call.a).err = NoErr
              /\ GetNodeShows(call.a).Properties = call.pre.props
        /\ call.a # "" /\ ~call.pre.hadA =>
              /\ err = NoErr
              /\ GetNode(Store, call.a).err = NoErr
              /\ GetNodeShows(call.a).ID = call.a
              /\ GetNodeShows(call.a).Properties = call.props

(* A second AddNode on a present id, with other properties, has failed.    *)
C7_Witness ==
    /\ call.op = "AddNode"
    /\ err = ErrNodeExists
    /\ call.props # call.pre.props
    /\ ~call.props.isNil

(* The contract of UpdateEdge and RemoveEdge, and of AddEdge on endpoints  *)
(* that are both present.                                                  *)
EdgeContractOnPresent ==
    /\ call.op = "AddEdge" /\ call.pre.hadA /\ call.pre.hadB /\ call.pre.hadEdge =>
          /\ err = ErrEdgeExists
          /\ HasEdge(call.a, call.b)
          /\ WeightOf(call.a, call.b) = call.pre.weight
    /\ call.op = "AddEdge" /\ call.pre.hadA /\ call.pre.hadB /\ ~call.pre.hadEdge =>
          /\ err = NoErr
          /\ HasEdge(call.a, call.b)
          /\ WeightOf(call.a, call.b) = call.w
    /\ call.op \in {"UpdateEdge", "RemoveEdge"} /\ ~call.pre.hadEdge =>
          err = ErrEdgeNotFound
    /\ call.op \in {"UpdateEdge", "RemoveEdge"} /\ call.pre.hadEdge =>
          err = NoErr

(* C8 as stated: AddEdge fails NotFound whenever an endpoint is not in the *)
(* node table.                                                             *)
C8_AsStated ==
    /\ EdgeContractOnPresent
    /\ call.op = "AddEdge" /\ (~call.pre.hadA \/ ~call.pre.hadB) => err = ErrNodeNotFound

(* C8, amended: AddEdge fails InvalidInput when an endpoint is the empty   *)
(* id, and NotFound when both are non-empty and one is not in the node     *)
(* table; the rest of the contract as stated.                              *)
C8_EdgeContract ==
    /\ EdgeContractOnPresent
    /\ call.op = "AddEdge" /\ (call.a = "" \/ call.b = "") => err = ErrInvalidInput
    /\ call.op = "AddEdge" /\ call.a # "" /\ call.b # "" /\ (~call.pre.hadA \/ ~call.pre.hadB) =>
          err = ErrNodeNotFound

(* A duplicate AddEdge with another weight has failed.                     *)
C8_Witness ==
    /\ call.op = "AddEdge"
    /\ err = ErrEdgeExists
    /\ call.w # call.pre.weight


----------------------------------------------------------------------------
(* Properties of values handed out by the read accessors (SpecAlias).      *)

(* C4: what a node or an edge returned by GetNode, AllNodes, GetOutEdges   *)
(* or GetInEdges shows does not change when the store is mutated later.    *)
C4_ReturnedValuesAreCopies ==
    /\ \A p \in SeqRange(held.nodes) : nodeHeap[p] = shown.nodes[p]
    /\ \A p \in SeqRange(held.edges) : edgeHeap[p] = shown.edges[p]


----------------------------------------------------------------------------
(* Properties of concurrent callers (SpecConc, SpecMixed).                 *)

KeysInNodeTable(S) ==
    /\ \A a \in DOMAIN S.out : a \in DOMAIN S.nodes /\ DOMAIN S.out[a] \subseteq DOMAIN S.nodes
    /\ \A a \in DOMAIN S.in : a \in DOMAIN S.nodes /\ DOMAIN S.in[a] \subseteq DOMAIN S.nodes

(* C5: a read accessor never sees a RemoveNode half done: while a reader   *)
(* holds the lock the store is as the last completed mutator left it, no   *)
(* index entry names a node that is gone, and what the reader has read is  *)
(* what that store holds.                                                  *)
C5_RemoveNodeIsAtomic ==
    \A t \in DOMAIN pc :
        t \in mu.readers =>
            /\ Store = committed
            /\ KeysInNodeTable(Store)
            /\ \A u \in DOMAIN pc : pc[u].at \notin {"rm_out", "rm_in"}
            /\ pc[t].at = "unlock" =>
                  \A ord \in Perms(NodeIds) :
                      obs[t] = ObsOf(Read(committed, pc[t].op, pc[t].a, ord))

(* A reader has read the incoming edges of a node while a RemoveNode of    *)
(* that node is waiting for the lock.                                      *)
C5_Witness ==
    \E t \in DOMAIN pc, u \in DOMAIN pc :
        /\ pc[t].at = "unlock" /\ pc[t].op = "GetInEdges"
        /\ Cardinality(obs[t].edges) = 2
        /\ pc[u].at = "lock" /\ pc[u].op = "RemoveNode" /\ pc[u].a = pc[t].a

AllWorkersDone ==
    /\ DOMAIN pc = Workers
    /\ \A t \in DOMAIN pc : pc[t].at = "idle" /\ script[t] = <<>>

(* C6: once every worker has made its AddNode, GetNode and RemoveNode on   *)
(* its own id, the node table is empty.                                    *)
C6_MixedWorkersLeaveEmptyTable ==
    AllWorkersDone => DOMAIN nodes = {}

(* All workers have finished.                                              *)
C6_Witness ==
    /\ AllWorkersDone
    /\ committed = Store


----------------------------------------------------------------------------
(* Properties of the traversal of a fixed graph (SpecDFS).                 *)

(* The neighbours of a node in a direction.                                *)
Succ(n, direction) == KeysOf(IF direction = Incoming THEN in ELSE out, n)

(* The nodes at hop distance <= k from x.                                  *)
RECURSIVE Within(_, _, _)
Within(x, direction, k) ==
    IF k = 0 THEN {x}
    ELSE LET W == Within(x, direction, k - 1)
         IN  W \cup UNION {Succ(n, direction) : n \in W}

Reachable(x, direction) == Within(x, direction, Cardinality(DOMAIN nodes))

NoDuplicates(s) == \A i, j \in 1..Len(s) : i # j => s[i] # s[j]

Unfiltered == dfs.made /\ ~dfs.rangeFilter.set
Drained == Len(dfs.stack) = 0

(* C9: a drained DFS with max depth k >= 0 and no range filter has yielded *)
(* exactly the nodes at hop distance <= k from the start node, each once.  *)
C9_BoundedDfsYieldsWithinK ==
    Unfiltered /\ dfs.maxDepth >= 0 /\ Drained =>
        /\ SeqRange(yielded) = Within(call.a, dfs.direction, dfs.maxDepth)
        /\ NoDuplicates(yielded)

(* C10: with unbounded depth and no range filter the stack becomes empty,  *)
(* and by then the DFS has yielded every node reachable from the start     *)
(* node, each once, and no other node.                                     *)
C10_UnboundedDfsYieldsReachable ==
    /\ (Unfiltered /\ dfs.maxDepth < 0) ~> (Unfiltered /\ dfs.maxDepth < 0 /\ Drained)
    /\ [](Unfiltered /\ dfs.maxDepth < 0 /\ Drained =>
            /\ SeqRange(yielded) = Reachable(call.a, dfs.direction)
            /\ NoDuplicates(yielded))

(* An unbounded DFS has drained on a graph with a cycle through the start  *)
(* node, part of which it cannot reach.                                    *)
C10_Witness ==
    /\ Unfiltered /\ dfs.maxDepth < 0 /\ Drained
    /\ Len(yielded) = 3
    /\ \E n \in DfsIds \ {call.a} : Has2(out, n, call.a) /\ n \in SeqRange(yielded)


(* C11: when the visitor callback never returns an error, Iterate returns  *)
(* nil.                                                                    *)
C11_IterateHasNoErrorPath ==
    iter.done /\ iter.failOn = {} => iter.err = NoErr

(* C12: a Next called when HasNext is true returns a node (the sequence of *)
(* returned nodes grows).                                                  *)
C12_HasNextThenNextReturnsNode ==
    [][dfs.made /\ HasNext(dfs) /\ dfs' # dfs => Len(yielded') > Len(yielded)]_vars


(* Iterate has returned after its callback failed on some node.            *)
CallbackFailed == iter.done /\ \E i \in 1..Len(iter.seen) : iter.seen[i] \in iter.failOn

(* Iterate returned the callback's error, and the node the callback failed *)
(* on is the last node the callback was invoked on.                        *)
ReturnedAtFirstError ==
    /\ iter.err = CallbackErr
    /\ \A i \in 1..Len(iter.seen) : iter.seen[i] \in iter.failOn <=> i = Len(iter.seen)

(* The entries left on the stack for nodes not visited yet were not given  *)
(* to the callback.                                                        *)
FrontierLeftUnvisited ==
    \A i \in 1..Len(dfs.stack) :
        nodeHeap[dfs.stack[i].node].ID \notin dfs.visited =>
            nodeHeap[dfs.stack[i].node].ID \notin SeqRange(iter.seen)

(* C13 as stated: after the callback failed, Iterate has returned its      *)
(* error at once, and the iterator yields nothing more.                    *)
C13_AsStated ==
    [][CallbackFailed => ReturnedAtFirstError /\ yielded' = yielded]_vars

(* The iterator states that Next leaves when it is called once for each    *)
(* node of seen and returns these nodes, in this order.                    *)
RECURSIVE AfterNexts(_, _, _)
AfterNexts(S, d, seen) ==
    IF seen = <<>> THEN {d}
    ELSE UNION {AfterNexts(S, r.dfs, Tail(seen)) :
                   r \in {x \in NextResults(S, d) : x.ret = Head(seen)}}

(* C13: when the callback fails on a node, Iterate returns that error      *)
(* without invoking the callback on a further node; the frontier entries   *)
(* not visited yet stay un-visited and are not discarded: Iterate leaves   *)
(* the iterator, its stack included, as the Next that returned the failing *)
(* node left it.                                                           *)
C13_IterateStopsAtCallbackError ==
    [][~iter.done /\ iter'.done /\ CallbackFailed' =>
           /\ ReturnedAtFirstError'
           /\ FrontierLeftUnvisited'
           /\ dfs' \in AfterNexts(Store, dfs, iter'.seen)]_vars

(* Iterate was aborted by its callback on the second node, with a node not *)
(* visited yet left on the stack.                                          *)
C13_Witness ==
    /\ CallbackFailed
    /\ Len(iter.seen) = 2
    /\ \E i \in 1..Len(dfs.stack) : nodeHeap[dfs.stack[i].node].ID \notin dfs.visited


(* The nodes yielded before the i-th.                                      *)
YieldedBefore(i) == {yielded[j] : j \in 1..(i - 1)}

(* The j-th yielded node still had a neighbour not yielded before the i-th. *)
HadUnvisited(j, i) == Succ(yielded[j], dfs.direction) \ YieldedBefore(i) # {}

(* The j-th yielded node was popped above the depth bound, so Next pushed  *)
(* its neighbours.                                                         *)
Expanded(j) == dfs.maxDepth < 0 \/ yieldedAt[j] < dfs.maxDepth

(* The i-th yielded node is a neighbour of the latest earlier node that    *)
(* satisfies open.                                                         *)
YieldedFromLatest(i, open(_)) ==
    /\ \E j \in 1..(i - 1) : open(j)
    /\ LET last == CHOOSE j \in 1..(i - 1) :
                       open(j) /\ \A k \in (j + 1)..(i - 1) : ~open(k)
       IN  yielded[i] \in Succ(yielded[last], dfs.direction)

(* C14 as stated: the yielded sequence starts with the start node and each *)
(* later node is a neighbour of the most recently yielded node that still  *)
(* had an unvisited neighbour.                                             *)
C14_AsStated ==
    Unfiltered =>
        /\ Len(yielded) > 0 => yielded[1] = call.a
        /\ \A i \in 2..Len(yielded) :
               YieldedFromLatest(i, LAMBDA j : HadUnvisited(j, i))

(* C14: the yielded sequence starts with the start node and each later     *)
(* node is a neighbour of the most recently yielded node that was popped   *)
(* above the depth bound and still had an unvisited neighbour.             *)
C14_DepthFirstPreorder ==
    Unfiltered =>
        /\ Len(yielded) > 0 => yielded[1] = call.a
        /\ \A i \in 2..Len(yielded) :
               YieldedFromLatest(i, LAMBDA j : Expanded(j) /\ HadUnvisited(j, i))

(* A traversal has backtracked: the last node yielded is not a neighbour   *)
(* of the node yielded before it, which was a dead end or at the bound.    *)
C14_Witness ==
    /\ Unfiltered
    /\ Len(yielded) = 4
    /\ yielded[4] \notin Succ(yielded[3], dfs.direction)
    /\ dfs.maxDepth = 2


(* C15: a drained DFS whose range filter starts at the start node X only   *)
(* and ends at a node Y only, reachable from X, has yielded X first, and   *)
(* only nodes on a branch from X that leads to Y.                          *)
C15_RangeYieldsBranchToEnd ==
    /\ dfs.made /\ dfs.rangeFilter.set /\ Drained
    /\ dfs.rangeFilter.Start = {call.a}
    /\ dfs.rangeFilter.End \subseteq Reachable(call.a, dfs.direction)
    => /\ Len(yielded) > 0 => yielded[1] = call.a
       /\ \A i \in 1..Len(yielded) : \A y \in dfs.rangeFilter.End :
              y \in Reachable(yielded[i], dfs.direction)


----------------------------------------------------------------------------
(* Properties of query execution (SpecQuery).                              *)

QueryStart == exec.query.Reading[1].Pattern[1].Elements[1]
QueryEdge  == exec.query.Reading[1].Pattern[1].Elements[2]
QueryEnd   == exec.query.Reading[1].Pattern[1].Elements[3]
QueryDirection == IF QueryEdge.Direction = EdgeLeft THEN Incoming ELSE Outgoing

DataOf(id) == nodeHeap[nodes[id]].Data
DataIsId == \A n \in DOMAIN nodes : DataOf(n) = n

(* The nodes whose hop distance from s lies in the query's window.         *)
InWindow(s) ==
    LET min == IF QueryEdge.MinHops.isNil THEN 1 ELSE QueryEdge.MinHops.val
        upTo == IF QueryEdge.MaxHops.isNil THEN Reachable(s, QueryDirection)
                ELSE Within(s, QueryDirection, QueryEdge.MaxHops.val)
        below == IF min = 0 THEN {} ELSE Within(s, QueryDirection, min - 1)
    IN  upTo \ below

BothNamed == ~QueryStart.Variable.isNil /\ ~QueryEnd.Variable.isNil

Executed == exec.done /\ exec.err = NoErr

(* C16: the rows of (a ..)-[*min..max]->(b) bind, for each start node s,   *)
(* a = s with b = each node whose hop distance from s is in [min, max],    *)
(* and nothing else.                                                       *)
C16_RowsAreTheHopWindow ==
    Executed /\ BothNamed /\ DataIsId =>
        SeqRange(exec.rows) =
            UNION {{[k \in {QueryStart.Variable.name, QueryEnd.Variable.name} |->
                        IF k = QueryStart.Variable.name THEN s ELSE n] :
                    n \in InWindow(s)} : s \in SeqRange(exec.starts)}

Unbounded == QueryEdge.MinHops.isNil /\ QueryEdge.MaxHops.isNil

(* The rows whose start variable carries the data of the start node s.     *)
RowsOf(s) == {i \in 1..Len(exec.rows) : exec.rows[i][QueryStart.Variable.name] = DataOf(s)}

(* C17: for each start node s the result has one row per distinct end node *)
(* in the hop window, also when two end nodes carry equal data; stated for *)
(* the query without hop bounds, (a ..)-[*]->(b).                          *)
C17_OneRowPerEndNode ==
    Executed /\ BothNamed /\ Unbounded =>
        \A s \in SeqRange(exec.starts) : Cardinality(RowsOf(s)) = Cardinality(InWindow(s))

(* The order of the node data as strings.                                  *)
DataOrder == <<"A", "B", "C", "CD", "D">>
Rank(d) == CHOOSE i \in 1..Len(DataOrder) : DataOrder[i] = d

SortedBy(rows, key, dir) ==
    \A i \in 1..(Len(rows) - 1) :
        IF dir = Descending THEN Rank(rows[i][key]) >= Rank(rows[i + 1][key])
        ELSE Rank(rows[i][key]) <= Rank(rows[i + 1][key])

(* C18: the returned rows are sorted by the ORDER BY key in the requested  *)
(* direction, and are at most LIMIT rows.                                  *)
C18_OrderSkipLimitApplied ==
    Executed =>
        /\ Len(exec.query.Order) > 0 =>
               SortedBy(exec.rows, exec.query.Order[1].Item.s, exec.query.Order[1].Dir)
        /\ ~exec.query.Limit.isNil => Len(exec.rows) <= exec.query.Limit.e.i

NamedVars == {p.Variable.name : p \in {e \in {QueryStart, QueryEnd} : ~e.Variable.isNil}}

Column(rows, k) == [i \in 1..Len(rows) |-> rows[i][k]]

(* The executed query with its first node pattern named a.                 *)
WithStartNamed ==
    [exec.query EXCEPT !.Reading[1].Pattern[1].Elements[1].Variable = VarOf("a")]

(* C19: a row binds the named variables and no other; the first pattern's  *)
(* variable is bound to a start node; the last pattern's variable is bound *)
(* to the end nodes whether or not the first pattern is named, i.e. to     *)
(* what it is bound to when the first pattern is named a.                  *)
C19_VariablesBoundToOwnNodes ==
    Executed =>
        /\ \A i \in 1..Len(exec.rows) :
              /\ DOMAIN exec.rows[i] = NamedVars
              /\ ~QueryStart.Variable.isNil =>
                     \E s \in SeqRange(exec.starts) :
                         exec.rows[i][QueryStart.Variable.name] = DataOf(s)
        /\ QueryStart.Variable.isNil /\ ~QueryEnd.Variable.isNil =>
               \E r \in ExecuteQuery(Store, WithStartNamed) :
                   /\ r.err = NoErr
                   /\ r.starts = exec.starts
                   /\ Column(r.rows, QueryEnd.Variable.name) =
                          Column(exec.rows, QueryEnd.Variable.name)

----------------------------------------------------------------------------
(* Properties of the start nodes (SpecMatch).                              *)

LabelsOf(id) == SeqRange(nodeHeap[nodes[id]].Labels)

(* The stored value v equals the literal e: the same string; the same      *)
(* integer, as an integer, a truncated float or a string parsed.           *)
SameValue(v, e) ==
    IF e.expr = "StrLiteral" THEN v.kind = "string" /\ v.s = e.s
    ELSE IF v.kind = "string" THEN Atoi(v.s).ok /\ Atoi(v.s).val = e.i
    ELSE v.i = e.i

Candidates ==
    {n \in DOMAIN nodes :
        /\ SeqRange(QueryStart.Labels) \subseteq LabelsOf(n)
        /\ \A k \in DOMAIN QueryStart.Properties :
              /\ k \in DOMAIN PropsOf(n).kv
              /\ SameValue(PropsOf(n).kv[k], QueryStart.Properties[k])}

(* C20: the start nodes found are exactly the nodes that carry every label *)
(* of the first node pattern and every property of it with an equal value. *)
C20_StartNodesMatchPattern ==
    exec.done => SeqRange(exec.starts) = Candidates /\ Len(exec.starts) = Cardinality(Candidates)

----------------------------------------------------------------------------
(* Properties of the executor with the range filter (SpecRangeQuery).      *)

RowIds == [i \in 1..Len(exec.rows) |-> exec.rows[i].ID]

StartMatches == MatchedIds(Store, QueryStart)
EndMatches   == MatchedIds(Store, QueryEnd)

(* C21: for (x {P})-[*]->(y {Q}) with a node matching Q reachable from     *)
(* each start node, the rows are nodes reached from a start node, without  *)
(* a node twice for one start node, and the final row is a node that       *)
(* matches Q.                                                              *)
C21_RangeRowsEndAtEndNode ==
    /\ Executed /\ Len(exec.starts) > 0
    /\ \A s \in SeqRange(exec.starts) : Reachable(s, QueryDirection) \cap EndMatches # {}
    => /\ Len(exec.rows) > 0
       /\ RowIds[Len(RowIds)] \in EndMatches
       /\ RowIds[1] = exec.starts[1]
       /\ \A i \in 1..Len(RowIds) :
              \E s \in SeqRange(exec.starts) : RowIds[i] \in Reachable(s, QueryDirection)
       /\ Len(exec.starts) = 1 => \A i, j \in 1..Len(RowIds) : RowIds[i] = RowIds[j] => i = j

----------------------------------------------------------------------------
(* Properties of the scanner (SpecScan).                                   *)

(* The digits of the text from the rune at offset o on.                    *)
RECURSIVE DigitRun(_, _)
DigitRun(text, o) ==
    IF o + 1 > Len(text) \/ ~isDigit(text[o + 1]) THEN <<>>
    ELSE <<text[o + 1]>> \o DigitRun(text, o + 1)

(* The literals of the first k tokens, one after the other.                *)
RECURSIVE Scanned(_)
Scanned(k) == IF k = 0 THEN <<>> ELSE Scanned(k - 1) \o lex.toks[k].lit

IsPrefix(p, text) == Len(p) <= Len(text) /\ SubSeq(text, 1, Len(p)) = p

(* Token t can be the token of the text that starts at offset o.           *)
StartsAt(text, o, t) ==
    IF t.tok = "EOF" THEN o = Len(text)
    ELSE /\ Len(t.lit) > 0
         /\ o + Len(t.lit) <= Len(text)
         /\ SubSeq(text, o + 1, o + Len(t.lit)) = t.lit

(* C25: an INTEGER token scanned at its place in the text holds exactly    *)
(* the digits found there, the token scanned after it starts right after   *)
(* its last digit, and a text of n runes has returned EOF when Scan has    *)
(* returned more than n tokens.                                            *)
C25_IntegerConsumesItsDigits ==
    lex.made =>
        /\ \A k \in 1..Len(lex.toks) :
              /\ lex.toks[k].tok = "INTEGER"
              /\ IsPrefix(Scanned(k), lex.r.src)
              => /\ lex.toks[k].lit = DigitRun(lex.r.src, Len(Scanned(k - 1)))
                 /\ k < Len(lex.toks) => StartsAt(lex.r.src, Len(Scanned(k)), lex.toks[k + 1])
        /\ Len(lex.toks) > Len(lex.r.src) => \E k \in 1..Len(lex.toks) : lex.toks[k].tok = "EOF"

----------------------------------------------------------------------------
(* Properties of the parser (SpecParse).                                   *)

Parsed == parse.done /\ parse.err.kind = "nil" /\ parse.q.kind # "nil"

ParseFailed == parse.done /\ parse.err.kind # "nil"

ExampleQuery == QueryText(<<"(", "a", " ", "{", "k", ":", " ", "'", "v", "'", "}", ")">>,
                          <<"-", "[", "*", "1", ".", ".", "3", "]", "-", ">", "(", "b", ")">>, <<>>)

(* The text of a pattern in which no node pattern follows the edge.        *)
DanglingEdgeQuery ==
    <<"M", "A", "T", "C", "H", " ", "(", "a", ")", "-", " ", "R", "E", "T", "U", "R", "N", " ", "a", ";">>

(* C22: every match pattern of a parsed query has an odd number of         *)
(* elements, node patterns at the odd places and edge patterns at the even *)
(* places; the example query parses to one reading clause with one pattern *)
(* of three elements, hop bounds 1 and 3, and the return items a and b.    *)
C22_ElementsAlternate ==
    /\ Parsed =>
          \A i \in 1..Len(parse.q.Reading) : \A j \in 1..Len(parse.q.Reading[i].Pattern) :
              LET elements == parse.q.Reading[i].Pattern[j].Elements
              IN  /\ Len(elements) % 2 = 1
                  /\ \A k \in 1..Len(elements) :
                         elements[k].kind = IF k % 2 = 1 THEN "NodePattern" ELSE "EdgePattern"
    /\ parse.done /\ parse.text = ExampleQuery =>
          /\ Parsed
          /\ Len(parse.q.Reading) = 1
          /\ Len(parse.q.Reading[1].Pattern) = 1
          /\ Len(parse.q.Reading[1].Pattern[1].Elements) = 3
          /\ parse.q.Reading[1].Pattern[1].Elements[2].MinHops = IntOf(1)
          /\ parse.q.Reading[1].Pattern[1].Elements[2].MaxHops = IntOf(3)
          /\ parse.q.ReturnItems = <<VariableExpr(<<"a">>), VariableExpr(<<"b">>)>>

(* The lexeme found is the text at the position pos, or the end of the     *)
(* text was found at its end.                                              *)
FoundAt(text, found, pos) ==
    \/ found = tokens["EOF"] /\ pos.Offset = Len(text)
    \/ /\ Len(found) > 0
       /\ pos.Offset + Len(found) <= Len(text)
       /\ SubSeq(text, pos.Offset + 1, pos.Offset + Len(found)) = found

MissingParenQuery == <<"M", "A", "T", "C", "H", " ", "(", "a", " ", "R", "E", "T", "U", "R", "N", " ", "a", ";">>

(* C23: a failed parse returns a ParseError with the lexeme found, at      *)
(* least one expected lexeme and the position of the lexeme found; for the *)
(* query with the missing ")" the expected lexemes include ")" and the     *)
(* position is that of RETURN, the token after a.                          *)
C23_StructuredSyntaxError ==
    ParseFailed =>
        /\ parse.err.kind = "ParseError"
        /\ Len(parse.err.Found) > 0
        /\ Len(parse.err.Expected) > 0
        /\ FoundAt(parse.text, parse.err.Found, parse.err.Pos)
        /\ parse.text = MissingParenQuery =>
              /\ ")" \in SeqRange(parse.err.Expected)
              /\ parse.err.Pos.Offset = 9

(* The edge patterns directed to the right and to the left, each followed  *)
(* by the node pattern (b).                                                *)
RightEdgeTexts ==
    {<<"-", "[", "r", "]", "-", ">", "(", "b", ")">>,
     <<"-", "[", "r", ":", "T", "|", "U", " ", "{", "k", ":", " ", "'", "v", "'", "}", "]", "-", ">", "(", "b", ")">>,
     <<"-", "[", "*", "1", ".", ".", "3", "]", "-", ">", "(", "b", ")">>}

LeftEdgeTexts ==
    {<<"<", "-", "[", "r", "]", "-", "(", "b", ")">>,
     <<"<", "-", "[", "*", "1", ".", ".", "3", "]", "-", "(", "b", ")">>}

NamedEdgeTexts ==
    {<<"-", "[", "r", "]", "-", ">", "(", "b", ")">>,
     <<"-", "[", "r", ":", "T", "|", "U", " ", "{", "k", ":", " ", "'", "v", "'", "}", "]", "-", ">", "(", "b", ")">>,
     <<"<", "-", "[", "r", "]", "-", "(", "b", ")">>}

RangedEdgeTexts ==
    {<<"-", "[", "*", "1", ".", ".", "3", "]", "-", ">", "(", "b", ")">>,
     <<"<", "-", "[", "*", "1", ".", ".", "3", "]", "-", "(", "b", ")">>}

TypedEdgeText == <<"-", "[", "r", ":", "T", "|", "U", " ", "{", "k", ":", " ", "'", "v", "'", "}", "]", "-", ">", "(", "b", ")">>

(* The edge pattern of the query parsed from MATCH (a), an edge text and   *)
(* RETURN a, b.                                                            *)
ParsedEdge == parse.q.Reading[1].Pattern[1].Elements[2]

(* C24: a query with an edge pattern of one of the five forms between (a)  *)
(* and (b) parses; the edge pattern has the direction of its arrow, the    *)
(* variable r when it is named, the types T and U and the property k when  *)
(* they are written, and the hop bounds 1 and 3 when they are written.     *)
C24_EdgeFormsParse ==
    \A e \in RightEdgeTexts \cup LeftEdgeTexts :
        parse.done /\ parse.text = QueryText(<<"(", "a", ")">>, e, <<>>) =>
            /\ Parsed
            /\ Len(parse.q.Reading) = 1
            /\ Len(parse.q.Reading[1].Pattern) = 1
            /\ Len(parse.q.Reading[1].Pattern[1].Elements) = 3
            /\ ParsedEdge.kind = "EdgePattern"
            /\ e \in RightEdgeTexts => ParsedEdge.Direction = EdgeRight
            /\ e \in LeftEdgeTexts => ParsedEdge.Direction = EdgeLeft
            /\ e \in NamedEdgeTexts => ParsedEdge.Variable = VarOf(<<"r">>)
            /\ e \in RangedEdgeTexts =>
                   ParsedEdge.MinHops = IntOf(1) /\ ParsedEdge.MaxHops = IntOf(3)
            /\ e = TypedEdgeText =>
                   /\ ParsedEdge.RelTypes = <<<<"T">>, <<"U">>>>
                   /\ ~ParsedEdge.Properties.isNil
                   /\ DOMAIN ParsedEdge.Properties.kv = {<<"k">>}
                   /\ ParsedEdge.Properties.kv[<<"k">>] = StrLiteral(<<"v">>)

MatchOnlyQuery == <<"M", "A", "T", "C", "H", " ", "(", "a", ")", ";">>

(* C26: a parsed query has at least one reading clause, and the query      *)
(* whose MATCH clause is followed by ";" fails with a ParseError that      *)
(* expects RETURN.                                                         *)
C26_MatchAndReturnRequired ==
    /\ Parsed => Len(parse.q.Reading) >= 1
    /\ parse.done /\ parse.text = MatchOnlyQuery =>
           /\ parse.err.kind = "ParseError"
           /\ parse.err.Expected = <<"RETURN">>

(* C27: in a parsed query every edge pattern with both hop bounds set has  *)
(* MinHops <= MaxHops.                                                     *)
C27_MinHopsAtMostMaxHops ==
    Parsed =>
        \A i \in 1..Len(parse.q.Reading) : \A j \in 1..Len(parse.q.Reading[i].Pattern) :
            LET elements == parse.q.Reading[i].Pattern[j].Elements
            IN  \A k \in 1..Len(elements) :
                    /\ elements[k].kind = "EdgePattern"
                    /\ ~elements[k].MinHops.isNil
                    /\ ~elements[k].MaxHops.isNil
                    => elements[k].MinHops.val <= elements[k].MaxHops.val

----------------------------------------------------------------------------
(* Properties of SaveToFile and LoadFromFile (SpecFile).                   *)

(* C28: a LoadFromFile of a document with an empty node id, a node id that *)
(* occurs twice or an edge to or from a node that the document lacks       *)
(* returns an error and leaves the node table, both indices and their      *)
(* objects as they were.                                                   *)
C28_LoadValidatesFirst ==
    [][(file'.op = "LoadFromFile" /\ file'.calls = file.calls + 1 /\ Invalid(file.doc))
           => (err' # NoErr /\ UNCHANGED storeVars)]_vars

(* Both indices hold the same edge objects, between nodes of the table.    *)
IndicesRebuilt ==
    /\ \A a \in DOMAIN out : \A b \in DOMAIN out[a] :
           {a, b} \subseteq DOMAIN nodes /\ Has2(in, b, a) /\ in[b][a] = out[a][b]
    /\ \A b \in DOMAIN in : \A a \in DOMAIN in[b] : Has2(out, a, b)

(* C29: when a snapshot written by SaveToFile has been loaded into an      *)
(* empty store, the store holds the nodes, properties and edges it held at *)
(* the save, its two indices agree, and a SaveToFile of it writes the      *)
(* document that was loaded.                                               *)
C29_SaveLoadRoundTrip ==
    file.trip.active =>
        /\ file.op = "LoadFromFile" =>
               Content(Store) = file.trip.content /\ IndicesRebuilt
        /\ file.op = "SaveToFile" => file.doc = file.trip.doc

----------------------------------------------------------------------------
(* Properties of a traversal with a concurrent mutator (SpecWalk).         *)

IndicesMirror(S) ==
    \A from \in WalkIds, to \in WalkIds :
        /\ Has2(S.out, from, to) <=> Has2(S.in, to, from)
        /\ Has2(S.out, from, to) =>
              /\ S.out[from][to] = S.in[to][from]
              /\ S.edgeHeap[S.out[from][to]].From = from
              /\ S.edgeHeap[S.out[from][to]].To = to

(* A step in which the traversing thread calls into the store.             *)
WalkerReads ==
    \/ WalkCreates
    \/ WalkPops /\ PopUnvisited(Store, dfs).found
    \/ WalkGetsNode

(* C30: every call the traversal makes into the store reads a store that   *)
(* satisfies the store invariants: it is the store as the last completed   *)
(* mutator left it, every index key is a node of the node table and the    *)
(* two indices mirror each other.  The traversal as a whole reads several  *)
(* such stores (the witness).                                              *)
C30_EachReadSeesConsistentStore ==
    [][WalkerReads =>
          /\ Store = committed
          /\ KeysInNodeTable(Store)
          /\ IndicesMirror(Store)]_vars

(* Next has returned a node that was not in the store any more: the call   *)
(* Next made for the node's edges failed with node not found, after Next   *)
(* had returned other nodes from the store that still held this one.       *)
C30_Witness ==
    /\ pc[Walker].at = "idle"
    /\ Len(yielded) >= 2
    /\ obs[Walker].op \in {"GetOutEdges", "GetInEdges"}
    /\ obs[Walker].a = yielded[Len(yielded)]
    /\ obs[Walker].err = ErrNodeNotFound
    /\ yielded[Len(yielded)] \notin DOMAIN nodes

----------------------------------------------------------------------------
(* Properties of integer literals against stored values (SpecIntMatch)     *)

(* The stored value v is the integer i as an integer, as an unsigned       *)
(* integer, as a float truncated, or as a string parsed as an integer.     *)
ReadsAsInt(v, i) ==
    \/ v.kind \in {"int", "uint"} /\ v.i = i
    \/ v.kind = "float" /\ v.i = i
    \/ v.kind = "string" /\ Atoi(v.s).ok /\ Atoi(v.s).val = i

(* The nodes whose k is stored and is 5 under none of the readings.        *)
MismatchedNodes ==
    {n \in DOMAIN nodes :
        /\ "k" \in DOMAIN NodeOf(Store, n).Properties.kv
        /\ ~ReadsAsInt(NodeOf(Store, n).Properties.kv["k"], 5)}

(* C31: a stored value that is the integer literal of the pattern under    *)
(* none of the integer, unsigned, truncated-float or parsed-string         *)
(* readings leaves its node out of the start nodes, and the query returns  *)
(* no error.                                                               *)
C31_MismatchIsFalseNotError ==
    (exec.done /\ MismatchedNodes # {}) =>
        /\ exec.err = NoErr
        /\ \A n \in MismatchedNodes : n \notin SeqRange(exec.starts)

(* The path executor has run where A holds true and B holds 5: only B      *)
(* starts a path.                                                          *)
C31_Witness ==
    /\ exec.done
    /\ call.op = "ExecutePathQuery"
    /\ NodeOf(Store, "A").Properties = GoMap([k \in {"k"} |-> BoolV(TRUE)])
    /\ NodeOf(Store, "B").Properties = GoMap([k \in {"k"} |-> IntV(5)])
    /\ exec.err = NoErr
    /\ exec.starts = <<"B">>


----------------------------------------------------------------------------
(* Properties of the creation of the iterator (SpecNewDFS)                 *)

(* C32: NewDFS on a start id the store does not hold, the empty store      *)
(* included, returns node not found and no iterator; on a start id the     *)
(* store holds it returns an iterator whose stack is the start node at     *)
(* depth 0 and whose visited set is empty.                                 *)
C32_NewDFSContract ==
    call.op = "NewDFS" =>
        IF call.a \notin DOMAIN nodes
        THEN err = ErrNodeNotFound /\ ~dfs.made /\ dfs = NoDFS
        ELSE /\ err = NoErr
             /\ dfs.made
             /\ dfs.stack = <<[node |-> nodes[call.a], depth |-> 0]>>
             /\ nodeHeap[dfs.stack[1].node].ID = call.a
             /\ dfs.visited = {}

(* NewDFS has failed on the empty store.                                   *)
C32_Witness ==
    /\ call.op = "NewDFS"
    /\ call.a = "A"
    /\ DOMAIN nodes = {}
    /\ err = ErrNodeNotFound
    /\ ~dfs.made

----------------------------------------------------------------------------
(* Properties of the parser's pushback (SpecPushback)                      *)

(* C33: after Unscan, once or twice in a row, the following calls of       *)
(* ScanIgnoreWhitespace return the significant tokens pushed back, in      *)
(* their first order, whatever whitespace or comments lie between them,    *)
(* and no more than the buffer's three slots are pushed back.              *)
C33_PushbackFaithful ==
    lex.made =>
        /\ NextSignificant(lex.p, Len(lex.want)) = lex.want
        /\ lex.p.n < 3

----------------------------------------------------------------------------
(* Properties of the executor that collects paths (SpecPathQuery)          *)

(* The nodes k hops from the node n along the direction of the query, on a *)
(* path that visits no node twice; seen: the nodes of the path so far.     *)
RECURSIVE HopsAway(_, _, _, _)
HopsAway(direction, n, k, seen) ==
    IF k = 0 THEN {n}
    ELSE UNION {HopsAway(direction, m, k - 1, seen \cup {m}) :
                   m \in {x \in DOMAIN nodes \ seen :
                             \/ direction # EdgeLeft /\ x \in KeysOf(out, n)
                             \/ direction # EdgeRight /\ x \in KeysOf(in, n)}}

PathWindow ==
    LET ep == exec.query.Reading[1].Pattern[1].Elements[2]
    IN  [direction |-> ep.Direction,
         min |-> IF ep.MinHops.isNil THEN 1 ELSE ep.MinHops.val,
         max |-> IF ep.MaxHops.isNil THEN Cardinality(DOMAIN nodes) ELSE ep.MaxHops.val]

(* The query names both of its nodes and asks for one hop at least.        *)
NamesBothEnds ==
    /\ exec.done
    /\ exec.err = NoErr
    /\ ~exec.query.Reading[1].Pattern[1].Elements[1].Variable.isNil
    /\ ~exec.query.Reading[1].Pattern[1].Elements[3].Variable.isNil
    /\ PathWindow.min >= 1

(* C34: Path.End of a path of one or more hops is the node the path has    *)
(* reached, so every row of the path executor binds the end variable to a  *)
(* node that many hops from the start node of the row, and not to the      *)
(* start node.                                                             *)
C34_RowsBindFarEnd ==
    NamesBothEnds =>
        \A i \in 1..Len(exec.rows) :
            /\ exec.rows[i]["b"] # exec.rows[i]["a"]
            /\ \E k \in PathWindow.min..PathWindow.max :
                  exec.rows[i]["b"] \in HopsAway(PathWindow.direction, exec.rows[i]["a"], k,
                                                 {exec.rows[i]["a"]})

----------------------------------------------------------------------------
(* Properties of an edge written without bounds (SpecUnbounded)            *)

(* The nodes that can be reached from n along one edge or more.            *)
RECURSIVE ReachedFrom(_)
ReachedFrom(front) ==
    LET more == front \cup UNION {KeysOf(out, x) : x \in front}
    IN  IF more = front THEN front ELSE ReachedFrom(more)

Beyond(n) == ReachedFrom(KeysOf(out, n)) \ {n}

(* C35: for [*] the window starts at one hop and has no upper bound: no    *)
(* row binds the end variable to the start node of the row, and every node *)
(* one hop or more from a start node has a row.                            *)
C35_UnboundedStartsAtOneHop ==
    (exec.done /\ exec.err = NoErr) =>
        /\ LET ep == exec.query.Reading[1].Pattern[1].Elements[2]
           IN  /\ ep.MinHops.isNil \/ ep.MinHops.val = 1
               /\ ep.MaxHops.isNil \/ ep.MaxHops.val = -1
        /\ \A i \in 1..Len(exec.rows) : exec.rows[i]["b"] # exec.rows[i]["a"]
        /\ \A i \in 1..Len(exec.starts) : \A n \in Beyond(exec.starts[i]) :
              \E j \in 1..Len(exec.rows) :
                  exec.rows[j]["a"] = exec.starts[i] /\ exec.rows[j]["b"] = n

----------------------------------------------------------------------------
(* Properties of UpdateNodeProps after AddNode (Spec)                      *)

(* C36: UpdateNodeProps on a node the store holds returns no error and     *)
(* never panics, also when the node was added with a nil property map, and *)
(* the node then shows every key given with its value; on an id the store  *)
(* does not hold it returns node not found.                                *)
C36_UpdateNodePropsNeverPanics ==
    call.op = "UpdateNodeProps" =>
        IF call.pre.hadA
        THEN /\ err = NoErr
             /\ \A k \in DOMAIN call.props.kv :
                   /\ k \in DOMAIN nodeHeap[nodes[call.a]].Properties.kv
                   /\ nodeHeap[nodes[call.a]].Properties.kv[k] = call.props.kv[k]
        ELSE err = ErrNodeNotFound

----------------------------------------------------------------------------
(* Properties of calls that race on one key (SpecRace)                     *)

(* The racers whose call of op has returned, and those it returned nil to. *)
ReturnedFrom(op) == {t \in Racers : \E i \in 1..Len(obs[t]) : obs[t][i].op = op}
SucceededIn(op) ==
    {t \in Racers : \E i \in 1..Len(obs[t]) : obs[t][i].op = op /\ obs[t][i].err = NoErr}
FailedWith(op) ==
    UNION {{obs[t][i].err : i \in {j \in 1..Len(obs[t]) :
                                      obs[t][j].op = op /\ obs[t][j].err # NoErr}} :
              t \in Racers}

(* C37: of the concurrent calls of AddNode with one id one succeeds and    *)
(* the others return node exists; of the concurrent calls of AddEdge with  *)
(* one pair one succeeds and the others return edge exists; the store      *)
(* holds the properties and the weight of the call that succeeded.         *)
C37_OneWinnerPerKey ==
    /\ Cardinality(SucceededIn("AddNode")) <= 1
    /\ Cardinality(SucceededIn("AddEdge")) <= 1
    /\ FailedWith("AddNode") \subseteq {ErrNodeExists}
    /\ FailedWith("AddEdge") \subseteq {ErrEdgeExists}
    /\ ReturnedFrom("AddNode") = Racers => Cardinality(SucceededIn("AddNode")) = 1
    /\ ReturnedFrom("AddEdge") = Racers => Cardinality(SucceededIn("AddEdge")) = 1
    /\ \A t \in SucceededIn("AddNode") : NodeOf(Store, "C").Properties = RaceProps(t)
    /\ \A t \in SucceededIn("AddEdge") :
          /\ edgeHeap[out["A"]["B"]].Weight = t
          /\ in["B"]["A"] = out["A"]["B"]

(* Every call has returned; racer 2 has added the edge and racer 3 the     *)
(* node.                                                                   *)
C37_Witness ==
    /\ ReturnedFrom("AddNode") = Racers
    /\ ReturnedFrom("AddEdge") = Racers
    /\ SucceededIn("AddEdge") = {2}
    /\ SucceededIn("AddNode") = {3}
    /\ edgeHeap[out["A"]["B"]].Weight = 2
    /\ NodeOf(Store, "C").Properties = RaceProps(3)

====
